---- MODULE Spec2Model ----
(***************************************************************************)
(* opdt-go: the authenticated request/response packets (package packet),   *)
(* the replay-protection nonce pool (package noncepool) and the server's   *)
(* receive loop (package server), as state machines.                       *)
(*                                                                         *)
(* Time.  A time.Time is modelled by its monotonic reading in ticks        *)
(* (TicksPerSec ticks to the second): time.Time.Sub uses the monotonic     *)
(* readings when both operands carry one, and every time.Time the pool     *)
(* stores comes from time.Now().  time.Now().Unix() is the wall clock in   *)
(* whole seconds: (mono + wallOff) \div TicksPerSec.                       *)
(*                                                                         *)
(* Bytes.  The 24-byte nonce is a value of Nonces.  XChaCha20-Poly1305 is  *)
(* an opaque AEAD: Seal builds a term that Open takes apart only under     *)
(* the same key and nonce.  The 8-byte timestamp keeps a width (TsBits,    *)
(* standing for 64) so that the uint64/int64 conversions and the wrapping  *)
(* subtraction are computed as the code computes them.                     *)
(***************************************************************************)
EXTENDS Integers, Sequences, FiniteSets, TLC

\* ------------------------------------------------------------------ bounds
TicksPerSec == 2
\* the width of the timestamp word, standing for 64
TsBits == 12
\* the wall clock (Unix seconds) when the process starts
BootEpoch == 20
\* the last second of monotonic time the model looks at
MaxTimeSec == 62
\* the retention of the pool driven directly, and the last tick looked at
PoolRetention == 3
PoolMaxTime == 8

\* --------------------------------------------------------------- constants
MessageTypeRequest == 0
MessageTypeResponse == 1
NonceSizeX == 24
Overhead == 16
RequestPacketSize == NonceSizeX + 8 + 1 + Overhead
ResponsePacketSize == NonceSizeX + 8 + 1 + 16 + 2 + Overhead
MaxEpochDiff == 30
Second == TicksPerSec
MaxTimeDiff == MaxEpochDiff * Second
ReplayWindowDuration == MaxTimeDiff * 2

ErrBadPacketSize == "bad packet size"
ErrRepeatedNonce == "repeated nonce"
ErrBadTimestamp == "time offset too large"
ErrBadMessageType == "bad message type"
\* chacha20poly1305's error of a failed Open
ErrOpen == "message authentication failed"
Nil == "nil"

\* ------------------------------------------------------------ fixed-width
RECURSIVE Pow2(_)
Pow2(n) == IF n = 0 THEN 1 ELSE 2 * Pow2(n - 1)

TsMod == Pow2(TsBits)

\* uint64(x) of an int64 x; binary.BigEndian.PutUint64 / Uint64 are inverse
\* to each other on the 8 bytes, so the wire carries the unsigned value.
ToUint64(x) == x % TsMod

\* int64(u) of a uint64 u
ToInt64(u) == IF u >= TsMod \div 2 THEN u - TsMod ELSE u

\* a - b in int64, wrapping
SubInt64(a, b) == ToInt64((a - b) % TsMod)

\* ------------------------------------------------------------------ clock
MaxTime == MaxTimeSec * TicksPerSec

\* time.Now().Unix() at monotonic reading mono
Unix(mono, off) == (mono + off) \div TicksPerSec

\* --------------------------------------------------------------- timestamp
\* the comparison taken one second too tight
CheckUnixEpochTimestamp_OffByOne(b, nowEpoch) ==
    LET tsEpoch == ToInt64(b)
        diff == SubInt64(tsEpoch, nowEpoch)
    IN  IF diff <= -MaxEpochDiff \/ diff >= MaxEpochDiff
        THEN ErrBadTimestamp
        ELSE Nil

CheckUnixEpochTimestamp(b, nowEpoch) ==
    LET tsEpoch == ToInt64(b)
        diff == SubInt64(tsEpoch, nowEpoch)
    IN  IF diff < -MaxEpochDiff \/ diff > MaxEpochDiff
        THEN ErrBadTimestamp
        ELSE Nil

\* --------------------------------------------------------------- noncepool
New(retention, t) ==
    [pool |-> << >>, retention |-> retention, lastClean |-> t]

\* an entry swept once it is as old as the retention
clean_AtRetention(p, t) ==
    IF t - p.lastClean > p.retention
    THEN [p EXCEPT
            !.pool = [n \in {m \in DOMAIN p.pool :
                                ~(t - p.pool[m] >= p.retention)} |-> p.pool[n]],
            !.lastClean = t]
    ELSE p

clean(p, t) ==
    IF t - p.lastClean > p.retention
    THEN [p EXCEPT
            !.pool = [n \in {m \in DOMAIN p.pool :
                                ~(t - p.pool[m] > p.retention)} |-> p.pool[n]],
            !.lastClean = t]
    ELSE p

\* the nonce looked up before the sweep
Check_LooksUpBeforeSweep(p, nonce, t) ==
    [p |-> clean(p, t), ok |-> ~(nonce \in DOMAIN p.pool)]

\* the nonce not looked up
Check_AlwaysFresh(p, nonce, t) ==
    [p |-> clean(p, t), ok |-> TRUE]

\* Check: the pool after the call and the value returned
Check(p, nonce, t) ==
    LET q == clean(p, t)
    IN  [p |-> q, ok |-> ~(nonce \in DOMAIN q.pool)]

Add(p, nonce, t) ==
    [p EXCEPT !.pool = [n \in DOMAIN p.pool \cup {nonce} |->
                            IF n = nonce THEN t ELSE p.pool[n]]]

\* ------------------------------------------------------------- net/netip
\* A netip.Addr: its family, its 16 bytes as the top 12 (hi) and the low 4
\* (lo), and its zone.  An IPv4 address is stored in the mapped form.
ZeroAddr == [fam |-> "zero", hi |-> "zeros", lo |-> 0, zone |-> ""]
Addr4(lo) == [fam |-> "v4", hi |-> "mapped", lo |-> lo, zone |-> ""]
Addr6(hi, lo, zone) == [fam |-> "v6", hi |-> hi, lo |-> lo, zone |-> zone]

\* Addr.As16: the 16 bytes; the zone is not part of them
As16(a) == [hi |-> a.hi, lo |-> a.lo]

AddrFrom16(b) == Addr6(b.hi, b.lo, "")

Is4In6(a) == a.fam = "v6" /\ a.hi = "mapped"

\* the mapped prefix left in place
Unmap_Identity(a) == a

Unmap(a) == IF Is4In6(a) THEN Addr4(a.lo) ELSE a

AddrPortFrom(a, port) == [addr |-> a, port |-> port]

\* binary.BigEndian.PutUint16 / Uint16
PutUint16(v) == <<v \div 256, v % 256>>
Uint16(b) == b[1] * 256 + b[2]

\* ------------------------------------------------------------------- AEAD
\* cipher.AEAD.Seal: ciphertext and tag, as a term
Seal(key, nonce, plaintext) ==
    [key |-> key, nonce |-> nonce, pt |-> plaintext]

\* cipher.AEAD.Open: the plaintext, or the error
Open(key, nonce, ciphertext) ==
    IF ciphertext.key = key /\ ciphertext.nonce = nonce
    THEN [err |-> Nil, pt |-> ciphertext.pt]
    ELSE [err |-> ErrOpen, pt |-> << >>]

\* the sizes of the two plaintexts
PlaintextSize(pt) == IF Len(pt) = 2 THEN 8 + 1 ELSE 8 + 1 + 16 + 2

\* a datagram: its length, its first 24 bytes and the rest
Packet(nonce, ciphertext) ==
    [len |-> NonceSizeX + PlaintextSize(ciphertext.pt) + Overhead,
     nonce |-> nonce, ct |-> ciphertext]

NoPacket == [len |-> 0, nonce |-> 0, ct |-> Seal("none", 0, << >>)]

\* ----------------------------------------------------------- packet.Client
\* PutRequest with rand.Read giving nonce, at wall-clock second nowEpoch
PutRequest(psk, nonce, nowEpoch) ==
    Packet(nonce, Seal(psk, nonce, <<ToUint64(nowEpoch), MessageTypeRequest>>))

NoAddrPort == AddrPortFrom(ZeroAddr, 0)

\* ParseResponse without the message type check
ParseResponse_TypeUnchecked(psk, resp, nowEpoch) ==
    IF resp.len # ResponsePacketSize
    THEN [addrPort |-> NoAddrPort, err |-> ErrBadPacketSize]
    ELSE LET o == Open(psk, resp.nonce, resp.ct)
         IN  IF o.err # Nil
             THEN [addrPort |-> NoAddrPort, err |-> o.err]
             ELSE IF CheckUnixEpochTimestamp(o.pt[1], nowEpoch) # Nil
             THEN [addrPort |-> NoAddrPort, err |-> ErrBadTimestamp]
             ELSE [addrPort |-> AddrPortFrom(Unmap(AddrFrom16(o.pt[3])),
                                             Uint16(o.pt[4])),
                   err |-> Nil]

ParseResponse(psk, resp, nowEpoch) ==
    IF resp.len # ResponsePacketSize
    THEN [addrPort |-> NoAddrPort, err |-> ErrBadPacketSize]
    ELSE LET o == Open(psk, resp.nonce, resp.ct)
         IN  IF o.err # Nil
             THEN [addrPort |-> NoAddrPort, err |-> o.err]
             ELSE IF CheckUnixEpochTimestamp(o.pt[1], nowEpoch) # Nil
             THEN [addrPort |-> NoAddrPort, err |-> ErrBadTimestamp]
             ELSE IF o.pt[2] # MessageTypeResponse
             THEN [addrPort |-> NoAddrPort, err |-> ErrBadMessageType]
             ELSE [addrPort |-> AddrPortFrom(Unmap(AddrFrom16(o.pt[3])),
                                             Uint16(o.pt[4])),
                   err |-> Nil]

\* ----------------------------------------------------------- packet.Server
NewServer(t) == New(ReplayWindowDuration, t)

\* the nonce added as soon as it is found fresh, before the open
Handle_AddBeforeOpen(psk, np, clientAddrPort, req, t, nowEpoch, respNonce) ==
    IF req.len # RequestPacketSize
    THEN [err |-> ErrBadPacketSize, np |-> np, resp |-> NoPacket]
    ELSE LET c == Check(np, req.nonce, t)
             o == Open(psk, req.nonce, req.ct)
             a == Add(c.p, req.nonce, t)
         IN  IF ~c.ok
             THEN [err |-> ErrRepeatedNonce, np |-> c.p, resp |-> NoPacket]
             ELSE IF o.err # Nil
             THEN [err |-> o.err, np |-> a, resp |-> NoPacket]
             ELSE IF CheckUnixEpochTimestamp(o.pt[1], nowEpoch) # Nil
             THEN [err |-> ErrBadTimestamp, np |-> a, resp |-> NoPacket]
             ELSE IF o.pt[2] # MessageTypeRequest
             THEN [err |-> ErrBadMessageType, np |-> a, resp |-> NoPacket]
             ELSE [err |-> Nil,
                   np |-> a,
                   resp |-> Packet(respNonce,
                              Seal(psk, respNonce,
                                   <<ToUint64(nowEpoch), MessageTypeResponse,
                                     As16(clientAddrPort.addr),
                                     PutUint16(clientAddrPort.port)>>))]

\* the open attempted before the nonce is looked up
Handle_OpenBeforeCheck(psk, np, clientAddrPort, req, t, nowEpoch, respNonce) ==
    IF req.len # RequestPacketSize
    THEN [err |-> ErrBadPacketSize, np |-> np, resp |-> NoPacket]
    ELSE LET c == Check(np, req.nonce, t)
             o == Open(psk, req.nonce, req.ct)
         IN  IF o.err # Nil
             THEN [err |-> o.err, np |-> np, resp |-> NoPacket]
             ELSE IF ~c.ok
             THEN [err |-> ErrRepeatedNonce, np |-> c.p, resp |-> NoPacket]
             ELSE IF CheckUnixEpochTimestamp(o.pt[1], nowEpoch) # Nil
             THEN [err |-> ErrBadTimestamp, np |-> c.p, resp |-> NoPacket]
             ELSE IF o.pt[2] # MessageTypeRequest
             THEN [err |-> ErrBadMessageType,
                   np |-> Add(c.p, req.nonce, t), resp |-> NoPacket]
             ELSE [err |-> Nil,
                   np |-> Add(c.p, req.nonce, t),
                   resp |-> Packet(respNonce,
                              Seal(psk, respNonce,
                                   <<ToUint64(nowEpoch), MessageTypeResponse,
                                     As16(clientAddrPort.addr),
                                     PutUint16(clientAddrPort.port)>>))]

\* Handle on the server whose nonce pool is np, with one clock reading t
\* (wall-clock second nowEpoch) for the whole call and rand.Read giving
\* respNonce: the error returned, the pool after the call, the response
\* written (NoPacket when none is).
Handle(psk, np, clientAddrPort, req, t, nowEpoch, respNonce) ==
    IF req.len # RequestPacketSize
    THEN [err |-> ErrBadPacketSize, np |-> np, resp |-> NoPacket]
    ELSE LET c == Check(np, req.nonce, t)
             o == Open(psk, req.nonce, req.ct)
         IN  IF ~c.ok
             THEN [err |-> ErrRepeatedNonce, np |-> c.p, resp |-> NoPacket]
             ELSE IF o.err # Nil
             THEN [err |-> o.err, np |-> c.p, resp |-> NoPacket]
             ELSE IF CheckUnixEpochTimestamp(o.pt[1], nowEpoch) # Nil
             THEN [err |-> ErrBadTimestamp, np |-> c.p, resp |-> NoPacket]
             ELSE IF o.pt[2] # MessageTypeRequest
             THEN [err |-> ErrBadMessageType,
                   np |-> Add(c.p, req.nonce, t), resp |-> NoPacket]
             ELSE [err |-> Nil,
                   np |-> Add(c.p, req.nonce, t),
                   resp |-> Packet(respNonce,
                              Seal(psk, respNonce,
                                   <<ToUint64(nowEpoch), MessageTypeResponse,
                                     As16(clientAddrPort.addr),
                                     PutUint16(clientAddrPort.port)>>))]

\* ------------------------------------------------------------------ state
VARIABLES
    now,        \* the monotonic clock, in ticks
    wallOff,    \* wall clock minus monotonic clock, in ticks
    noncePool,  \* packet.Server.noncePool (a noncepool.NoncePool)
    last,       \* the last Handle call: its request, error and response
    accepted,   \* the requests Handle has returned nil for
    replays,    \* the requests Handle has returned nil for more than once
    parity,     \* flips at every call, so that no call is a stuttering step
    poolOp,     \* the last direct NoncePool call and what it observed
    tsCase,     \* a timestamp, a clock reading and CheckUnixEpochTimestamp's answer
    rt,         \* a request on its way: PutRequest, Handle, ParseResponse
    srv,        \* server.Server: its socket, its receive loop, its Stop
    io,         \* the receive loop's last iteration: what it read and wrote
    cli         \* client.Client: one Run or Get call, its activities and its caller

clockVars == <<now, wallOff>>
obsVars == <<last, accepted, replays>>
coreVars == <<now, wallOff, noncePool, last, accepted, replays, parity, poolOp>>
sideVars == <<tsCase, rt, srv, io, cli>>
vars == <<now, wallOff, noncePool, last, accepted, replays, parity, poolOp,
          tsCase, rt, srv, io, cli>>

nowEpoch == Unix(now, wallOff)
retention == noncePool.retention

\* ----------------------------------------------------------------- inputs
PSK == "psk"
OtherKey == "other"
Keys == {PSK, OtherKey}
Nonces == {1, 2}

\* the clock readings are taken MaxTimeDiff, or one tick more, apart
Steps == {MaxTimeDiff, MaxTimeDiff + 1}

TsOffsets == {-(MaxEpochDiff + 1), -MaxEpochDiff, 0, MaxEpochDiff, MaxEpochDiff + 1}

\* the peer of the Handle calls, and the nonce rand.Read gives a response
Peer == AddrPortFrom(Addr4(5), 443)
RespNonce == CHOOSE n \in Nonces : TRUE

\* 49-byte datagrams sealed under the PSK with their own nonce: requests
\* (from PutRequest, on clocks up to MaxEpochDiff + 1 off) and one with the
\* other message type
SealedRequests(epoch) ==
    {Packet(n, Seal(PSK, n, <<ToUint64(epoch + o), MessageTypeRequest>>)) :
        n \in Nonces, o \in TsOffsets}
    \cup {Packet(n, Seal(PSK, n, <<ToUint64(epoch), MessageTypeResponse>>)) :
            n \in Nonces}

\* 49-byte datagrams that do not open: sealed under another key, or a
\* sealed request whose first 24 bytes were replaced
ForgedRequests(epoch) ==
    {Packet(n, Seal(OtherKey, n, <<ToUint64(epoch), MessageTypeRequest>>)) :
        n \in Nonces}
    \cup {Packet(1, Seal(PSK, 2, <<ToUint64(epoch), MessageTypeRequest>>))}

\* datagrams of another size: a request cut short, and a response
WrongSizeRequests(epoch) ==
    {[PutRequest(PSK, 1, epoch) EXCEPT !.len = RequestPacketSize - 1],
     Packet(1, Seal(PSK, 1, <<ToUint64(epoch), MessageTypeResponse,
                              As16(Addr4(5)), PutUint16(443)>>))}

Requests(epoch) ==
    SealedRequests(epoch) \cup ForgedRequests(epoch) \cup WrongSizeRequests(epoch)

\* ------------------------------------------------------------------- Init
NoCall == [op |-> "none", req |-> NoPacket, err |-> Nil, resp |-> NoPacket]
NoPoolOp == [op |-> "none", nonce |-> 0, ok |-> FALSE, was |-> FALSE, swept |-> {}]

NoTsCase == [ts |-> 0, nowEpoch |-> 0, err |-> "none"]
NoRt == [pc |-> "new", clientAddrPort |-> NoAddrPort, req |-> NoPacket,
         err |-> Nil, resp |-> NoPacket,
         parsed |-> [addrPort |-> NoAddrPort, err |-> Nil]]
NoSrv == [serverConn |-> "nil", deadline |-> "none", recv |-> "none",
          start |-> "none", stop |-> "none", stoppedAt |-> "none"]
NoRead == [err |-> Nil, flags |-> 0, req |-> NoPacket, clientAddrPort |-> NoAddrPort]
NoIo == [out |-> "none", rd |-> NoRead, herr |-> Nil,
         wrote |-> FALSE, to |-> NoAddrPort, resp |-> NoPacket]

\* client.Error, with the errors it wraps; a nil error, and an error value
\* that is not a client.Error, are written with an empty Message
ErrDeadlineExceeded == "i/o timeout"
ContextDeadlineExceeded == "context deadline exceeded"
ErrSetReadDeadline == "set read deadline error"

Error(message, peerAddrPort, packetLength, err) ==
    [Message |-> message, PeerAddrPort |-> peerAddrPort,
     PacketLength |-> packetLength, Err |-> err]
PlainError(err) == Error("", NoAddrPort, 0, err)
NoError == PlainError(Nil)

\* client.Result
OkResult(clientAddrPort) == [ClientAddrPort |-> clientAddrPort, Err |-> NoError]
ErrResult(err) == [ClientAddrPort |-> NoAddrPort, Err |-> err]
\* netip.AddrPort.IsValid
IsValid(addrPort) == addrPort.addr.fam # "zero"
IsOk(result) == IsValid(result.ClientAddrPort)
NoResult == ErrResult(NoError)

\* what ReadMsgUDPAddrPort returns to the client: respBuf[:n], the flags,
\* the source and the error
NoClRead == [err |-> Nil, flags |-> 0, resp |-> NoPacket, src |-> NoAddrPort]
NoRet == [addrPort |-> NoAddrPort, err |-> NoError]

\* a Client before Run or Get is called
NoCli ==
    [caller |-> "none",       \* who called Run: Get, or another caller
     interval |-> 0,          \* Run's interval, in ticks
     attempts |-> 0,          \* Get's attempts
     t0 |-> 0,                \* when Get or Run was called
     deadline |-> -1,         \* the deadline of ctx, -1 for none
     done |-> FALSE,          \* ctx.Done() is closed
     cancelled |-> FALSE,     \* the caller has cancelled ctx
     rdl |-> "none",          \* the socket's read deadline
     closed |-> FALSE,        \* resultCh is closed
     closes |-> 0,            \* how often close(resultCh) has run
     snd |-> "none",          \* where the send activity is
     when |-> 0,              \* when its time.After fires
     sndOut |-> NoResult,     \* the Result it is sending on resultCh
     sndEv |-> 0,             \* the event that Result reports
     rcv |-> "none",          \* where the receive activity is
     rcvOut |-> NoResult,
     rcvEv |-> 0,
     rd |-> NoClRead,         \* what its last read returned
     cb |-> "none",           \* where the context.AfterFunc callback is
     get |-> "none",          \* where Get is
     clientErr |-> NoError,   \* Get's clientErr
     ret |-> NoRet,           \* what Get returned
     events |-> << >>,        \* the activity of each event, in order
     delivered |-> << >>,     \* the events whose Result was received, in order
     lastErr |-> NoError,     \* the Err of the last Result received that is not Ok
     firstOk |-> NoAddrPort,  \* the address of the first Ok Result received
     sends |-> << >>,         \* the times of the WriteToUDPAddrPort calls
     reads |-> 0,             \* the reads that returned something
     werrs |-> 0,             \* the writes that failed
     sawOk |-> FALSE]         \* a read has returned a response that parses

ClockInit == now = 0 /\ wallOff = BootEpoch * TicksPerSec
ObsInit == last = NoCall /\ accepted = {} /\ replays = {}
TsIdle == tsCase = NoTsCase
RtIdle == rt = NoRt
SrvIdle == srv = NoSrv /\ io = NoIo
ClIdle == cli = NoCli

Init ==
    /\ ClockInit
    /\ noncePool = NewServer(0)
    /\ ObsInit
    /\ parity = 0
    /\ poolOp = NoPoolOp
    /\ TsIdle /\ RtIdle /\ SrvIdle /\ ClIdle

\* ---------------------------------------------------------------- actions
\* time passes
Tick(d, limit) ==
    /\ now + d <= limit
    /\ now' = now + d
    /\ UNCHANGED <<wallOff, noncePool, last, accepted, replays, parity, poolOp>>
    /\ UNCHANGED sideVars

Advance(d) == Tick(d, MaxTime)

\* one call of Server.Handle, with a datagram of the network's choosing or a
\* request accepted before
ServerHandle(clientAddrPort, req, respNonce) ==
    LET h == Handle(PSK, noncePool, clientAddrPort, req, now, nowEpoch, respNonce)
    IN  /\ noncePool' = h.np
        /\ last' = [op |-> "Handle", req |-> req, err |-> h.err, resp |-> h.resp]
        /\ accepted' = IF h.err = Nil THEN accepted \cup {req} ELSE accepted
        /\ replays' = IF h.err = Nil /\ req \in accepted
                      THEN replays \cup {req} ELSE replays
        /\ parity' = 1 - parity
        /\ UNCHANGED <<now, wallOff, poolOp, sideVars>>

Next ==
    \/ \E d \in Steps : Advance(d)
    \/ \E req \in Requests(nowEpoch) \cup accepted :
          ServerHandle(Peer, req, RespNonce)

Spec == Init /\ [][Next]_vars

\* ------------------------------------------------- what the claims speak of
\* The steps of the validation, stated on the datagram itself.
RightSize(req) == req.len = RequestPacketSize
Opens(req) == req.ct.key = PSK /\ req.ct.nonce = req.nonce
\* the timestamp is within MaxEpochDiff of the clock, in exact integers
Fresh(ts, epoch) ==
    /\ -MaxEpochDiff <= ToInt64(ts) - epoch
    /\ ToInt64(ts) - epoch <= MaxEpochDiff
Validated(req, epoch) == RightSize(req) /\ Opens(req) /\ Fresh(req.ct.pt[1], epoch)
ValidRequest(req, epoch) ==
    Validated(req, epoch) /\ req.ct.pt[2] = MessageTypeRequest

InPool(np, n) == n \in DOMAIN np.pool
\* n is in the pool and no older than the retention at time t
Retained(np, n, t) == InPool(np, n) /\ t - np.pool[n] <= np.retention
\* a Check at time t sweeps
SweepDue(np, t) == t - np.lastClean > np.retention
\* n is in the pool when a Check at time t has swept
Kept(np, n, t) == InPool(np, n) /\ (SweepDue(np, t) => Retained(np, n, t))

ProtocolErrors ==
    {ErrBadPacketSize, ErrRepeatedNonce, ErrOpen, ErrBadTimestamp, ErrBadMessageType}

\* this step is a call of Handle
HandleStep == parity' # parity /\ last'.op = "Handle"

\* C1: on one server with a non-decreasing clock, no request is accepted
\* (Handle returning nil) more than once.
C1_NoReplayAccepted == replays = {}

\* C2: a valid request whose nonce the pool does not hold is accepted and
\* answered, its nonce entering the pool at the time of the call; the same
\* bytes handed to Handle again while the pool retains the nonce are rejected
\* with ErrRepeatedNonce and no response is written.
C2_OnceThenRepeatedNonce ==
    [][HandleStep =>
        LET req == last'.req
        IN  /\ (ValidRequest(req, nowEpoch) /\ ~InPool(noncePool, req.nonce)
                  => last'.err = Nil /\ last'.resp # NoPacket)
            /\ (last'.err = Nil
                  => /\ InPool(noncePool', req.nonce)
                     /\ noncePool'.pool[req.nonce] = now)
            /\ (req \in accepted /\ Retained(noncePool, req.nonce, now)
                  => last'.err = ErrRepeatedNonce /\ last'.resp = NoPacket)]_vars

C2_Witness ==
    /\ last.op = "Handle"
    /\ last.req \in accepted
    /\ last.err = ErrRepeatedNonce
    /\ last.resp = NoPacket

\* C5 as stated: a Handle call that returns a protocol validation error
\* leaves the nonce cache as it was.
C5_RejectLeavesCacheUnchanged ==
    [][HandleStep /\ last'.err \in ProtocolErrors
          => noncePool'.pool = noncePool.pool]_vars

\* C5 as amended: a bad size leaves the cache untouched; a repeated nonce, a
\* failed open and a bad timestamp insert nothing, the call's sweep removing
\* only entries older than the retention; a bad message type inserts the
\* request's nonce, as an accepted call does.
C5_RejectInsertsOnlyOnBadType ==
    [][HandleStep =>
        LET req == last'.req
            old == noncePool.pool
            new == noncePool'.pool
        IN  /\ last'.err = ErrBadPacketSize => noncePool' = noncePool
            /\ last'.err \in {ErrRepeatedNonce, ErrOpen, ErrBadTimestamp} =>
                 /\ DOMAIN new \subseteq DOMAIN old
                 /\ \A n \in DOMAIN new : new[n] = old[n]
                 /\ \A n \in DOMAIN old \ DOMAIN new : now - old[n] > retention
            /\ last'.err \in {ErrBadMessageType, Nil} =>
                 /\ ~InPool(noncePool, req.nonce) \/ now - old[req.nonce] > retention
                 /\ req.nonce \in DOMAIN new /\ new[req.nonce] = now]_vars

C5_Witness ==
    /\ last.op = "Handle"
    /\ last.err = ErrBadMessageType
    /\ InPool(noncePool, last.req.nonce)
    /\ noncePool.pool[last.req.nonce] = now

\* C6: a nonce enters the cache only by a Handle call whose request has the
\* exact size, opens under the PSK and carries a fresh timestamp, and an
\* entry is never changed afterwards.
C6_OnlyValidatedNoncesInserted ==
    [][\A n \in DOMAIN noncePool'.pool :
          \/ InPool(noncePool, n) /\ noncePool'.pool[n] = noncePool.pool[n]
          \/ /\ HandleStep
             /\ last'.req.nonce = n
             /\ Validated(last'.req, nowEpoch)
             /\ noncePool'.pool[n] = now]_vars

C6_Witness ==
    /\ last.op = "Handle"
    /\ last.err = Nil
    /\ Cardinality(DOMAIN noncePool.pool) = 2
    /\ noncePool.pool[last.req.nonce] = now

\* the error of the first step that fails, the replay step failing when the
\* nonce is in the cache at the call (C7 as stated)
FirstFailureStated(req, np, t, epoch) ==
    IF ~RightSize(req) THEN ErrBadPacketSize
    ELSE IF InPool(np, req.nonce) THEN ErrRepeatedNonce
    ELSE IF ~Opens(req) THEN ErrOpen
    ELSE IF ~Fresh(req.ct.pt[1], epoch) THEN ErrBadTimestamp
    ELSE IF req.ct.pt[2] # MessageTypeRequest THEN ErrBadMessageType
    ELSE Nil

\* the same, the replay step failing when the nonce is in the cache once the
\* call's sweep has run (C7 as amended)
FirstFailure(req, np, t, epoch) ==
    IF ~RightSize(req) THEN ErrBadPacketSize
    ELSE IF Kept(np, req.nonce, t) THEN ErrRepeatedNonce
    ELSE IF ~Opens(req) THEN ErrOpen
    ELSE IF ~Fresh(req.ct.pt[1], epoch) THEN ErrBadTimestamp
    ELSE IF req.ct.pt[2] # MessageTypeRequest THEN ErrBadMessageType
    ELSE Nil

\* C7 as stated: Handle returns the error of the first failing step in the
\* order size, nonce replay, open, timestamp, message type, a nonce that is
\* in the cache giving ErrRepeatedNonce; a wrong size does not touch the cache.
C7_FirstFailingStepStated ==
    [][HandleStep =>
        /\ last'.err = FirstFailureStated(last'.req, noncePool, now, nowEpoch)
        /\ (last'.err = ErrBadPacketSize => noncePool' = noncePool)]_vars

\* C7 as amended: the same, the nonce replay step failing when the nonce is
\* in the cache and this call's sweep does not remove it.
C7_FirstFailingStep ==
    [][HandleStep =>
        /\ last'.err = FirstFailure(last'.req, noncePool, now, nowEpoch)
        /\ (last'.err = ErrBadPacketSize => noncePool' = noncePool)]_vars

\* a forged request is reported as a repeated nonce
C7_Witness ==
    /\ last.op = "Handle"
    /\ last.err = ErrRepeatedNonce
    /\ ~Opens(last.req)

\* ====================================================== the pool on its own
\* A NoncePool driven directly through Check and Add, the clock read at
\* every tick.
PoolInit ==
    /\ ClockInit
    /\ noncePool = New(PoolRetention, 0)
    /\ ObsInit
    /\ parity = 0
    /\ poolOp = NoPoolOp
    /\ TsIdle /\ RtIdle /\ SrvIdle /\ ClIdle

PoolAdvance == Tick(1, PoolMaxTime)

PoolCheck(nonce) ==
    LET c == Check(noncePool, nonce, now)
    IN  /\ noncePool' = c.p
        /\ poolOp' = [op |-> "Check", nonce |-> nonce, ok |-> c.ok,
                      was |-> InPool(noncePool, nonce),
                      swept |-> DOMAIN noncePool.pool \ DOMAIN c.p.pool]
        /\ parity' = 1 - parity
        /\ UNCHANGED <<now, wallOff, last, accepted, replays, sideVars>>

PoolAdd(nonce) ==
    /\ noncePool' = Add(noncePool, nonce, now)
    /\ poolOp' = [op |-> "Add", nonce |-> nonce, ok |-> FALSE,
                  was |-> InPool(noncePool, nonce), swept |-> {}]
    /\ parity' = 1 - parity
    /\ UNCHANGED <<now, wallOff, last, accepted, replays, sideVars>>

PoolNext ==
    \/ PoolAdvance
    \/ \E n \in Nonces : PoolCheck(n)
    \/ \E n \in Nonces : PoolAdd(n)

SpecPool == PoolInit /\ [][PoolNext]_vars

\* this step is a call of Check
CheckStep == parity' # parity /\ poolOp'.op = "Check"

\* C9 as stated: Check(n) returns true exactly when n was absent from the
\* pool at the call, and the call does not remove n.
C9_CheckTrueIffAbsentStated ==
    poolOp.op = "Check" =>
        /\ poolOp.ok <=> ~poolOp.was
        /\ poolOp.nonce \notin poolOp.swept

\* C9 as amended: Check(n) returns true exactly when n is absent once the
\* call's sweep has run: n was absent at the call, or n was older than the
\* retention and the sweep was due, in which case the call removes n itself.
C9_CheckTrueIffAbsentAfterSweep ==
    [][CheckStep =>
        LET n == poolOp'.nonce
            gone == /\ InPool(noncePool, n)
                    /\ SweepDue(noncePool, now)
                    /\ now - noncePool.pool[n] > retention
        IN  /\ poolOp'.ok <=> (~InPool(noncePool, n) \/ gone)
            /\ poolOp'.ok <=> ~InPool(noncePool', n)
            /\ (InPool(noncePool, n) /\ ~InPool(noncePool', n)) <=> gone]_vars

\* Check(n) returned true for a nonce that was in the pool, removing it
C9_Witness ==
    /\ poolOp.op = "Check"
    /\ poolOp.was
    /\ poolOp.ok
    /\ poolOp.nonce \in poolOp.swept

\* C10 as stated: a nonce added at T is removed by any Check made later than
\* T + retention, and Check of it returns false while it is in the pool.
C10_SweptAfterRetentionStated ==
    [][CheckStep =>
        \A n \in DOMAIN noncePool.pool :
            /\ now > noncePool.pool[n] + retention => ~InPool(noncePool', n)
            /\ (poolOp'.nonce = n /\ InPool(noncePool', n)) => ~poolOp'.ok]_vars

\* C10 as amended: a nonce added at T is removed by a Check made later than
\* T + retention when more than the retention has passed since the last
\* sweep, and by every Check made later than T + 2 * retention; no Check up
\* to T + retention removes it, and Check of it returns false as long as it
\* is not removed.
C10_SweptAfterRetention ==
    [][CheckStep =>
        \A n \in DOMAIN noncePool.pool :
            LET T == noncePool.pool[n]
            IN  /\ (now > T + retention /\ SweepDue(noncePool, now))
                      => ~InPool(noncePool', n)
                /\ (now > T + retention /\ ~SweepDue(noncePool, now))
                      => InPool(noncePool', n)
                /\ now > T + 2 * retention => ~InPool(noncePool', n)
                /\ now <= T + retention => InPool(noncePool', n)
                /\ (poolOp'.nonce = n /\ InPool(noncePool', n)) => ~poolOp'.ok]_vars

\* a Check of one nonce, later than 2 * retention after the other was added,
\* swept the other
C10_Witness ==
    /\ poolOp.op = "Check"
    /\ poolOp.swept # {}
    /\ poolOp.nonce \notin poolOp.swept
    /\ now > 2 * retention

\* ================================================= CheckUnixEpochTimestamp
\* The function on its own: every timestamp word, against clock readings in
\* the range the clock's seconds are kept in.
MaxClockEpoch == TsMod \div 4
ClockEpochs ==
    {-MaxClockEpoch, -1, 0, 1, MaxEpochDiff, MaxEpochDiff + 1, BootEpoch,
     MaxClockEpoch - 1, MaxClockEpoch}

TsInit ==
    /\ ClockInit
    /\ noncePool = NewServer(0)
    /\ ObsInit
    /\ parity = 0
    /\ poolOp = NoPoolOp
    /\ RtIdle /\ SrvIdle /\ ClIdle
    /\ tsCase \in {[ts |-> u, nowEpoch |-> e, err |-> "none"] :
                      u \in 0 .. TsMod - 1, e \in ClockEpochs}

TsCheck ==
    /\ tsCase.err = "none"
    /\ tsCase' = [tsCase EXCEPT
                    !.err = CheckUnixEpochTimestamp(tsCase.ts, tsCase.nowEpoch)]
    /\ UNCHANGED <<coreVars, rt, srv, io, cli>>

TsNext == TsCheck

SpecTs == TsInit /\ [][TsNext]_vars

\* C8: CheckUnixEpochTimestamp accepts a timestamp exactly when it is within
\* MaxEpochDiff seconds of the clock in exact integer arithmetic, and
\* otherwise returns ErrBadTimestamp, for every timestamp word.
C8_TimestampWindowExact ==
    tsCase.err # "none" =>
        /\ tsCase.err = Nil <=> Fresh(tsCase.ts, tsCase.nowEpoch)
        /\ tsCase.err # Nil => tsCase.err = ErrBadTimestamp

\* a timestamp whose subtraction wraps is rejected
C8_Witness ==
    /\ tsCase.err = ErrBadTimestamp
    /\ ToInt64(tsCase.ts) - tsCase.nowEpoch < -(TsMod \div 2)

\* =========================================================== the round trip
\* TestClientServer, for any peer address: the client seals a request, the
\* server handles it for the peer, the client parses the response; time may
\* pass in between, and the server goes on to serve further requests.
RtAddrs ==
    {Addr4(5), Addr6("2001:db8::", 1, ""), Addr6("zeros", 0, ""),
     Addr6("mapped", 5, ""), Addr6("fe80::", 1, "eth0"), ZeroAddr}
RtPorts == {0, 443, 60000, 65535}

RtInit ==
    /\ ClockInit
    /\ noncePool = NewServer(0)
    /\ ObsInit
    /\ parity = 0
    /\ poolOp = NoPoolOp
    /\ TsIdle /\ RtIdle /\ SrvIdle /\ ClIdle

RtAdvance(d) == Tick(d, MaxTime)

RtPutRequest(nonce) ==
    /\ rt.pc = "new"
    /\ rt' = [rt EXCEPT !.pc = "put", !.req = PutRequest(PSK, nonce, nowEpoch)]
    /\ UNCHANGED <<coreVars, tsCase, srv, io, cli>>

RtHandle(clientAddrPort) ==
    /\ rt.pc = "put"
    /\ LET h == Handle(PSK, noncePool, clientAddrPort, rt.req, now, nowEpoch, RespNonce)
       IN  /\ noncePool' = h.np
           /\ rt' = [rt EXCEPT !.pc = "handled", !.clientAddrPort = clientAddrPort,
                               !.err = h.err, !.resp = h.resp]
    /\ UNCHANGED <<now, wallOff, last, accepted, replays, parity, poolOp,
                   tsCase, srv, io, cli>>

RtParseResponse ==
    /\ rt.pc = "handled"
    /\ rt.err = Nil
    /\ rt' = [rt EXCEPT !.pc = "parsed",
                        !.parsed = ParseResponse(PSK, rt.resp, nowEpoch)]
    /\ UNCHANGED <<coreVars, tsCase, srv, io, cli>>

RtAgain ==
    /\ rt.pc \in {"handled", "parsed"}
    /\ rt' = NoRt
    /\ UNCHANGED <<coreVars, tsCase, srv, io, cli>>

RtNext ==
    \/ \E d \in Steps : RtAdvance(d)
    \/ \E n \in Nonces : RtPutRequest(n)
    \/ \E a \in RtAddrs, p \in RtPorts : RtHandle(AddrPortFrom(a, p))
    \/ RtParseResponse
    \/ RtAgain

SpecRoundTrip == RtInit /\ [][RtNext]_vars

\* the request is handled while its timestamp is fresh and its nonce is not
\* held by the pool
RtHandleFresh ==
    /\ rt.pc = "put" /\ rt'.pc = "handled"
    /\ Fresh(rt.req.ct.pt[1], nowEpoch)
    /\ ~Kept(noncePool, rt.req.nonce, now)

\* the response is parsed while its timestamp is fresh
RtParseFresh ==
    /\ rt.pc = "handled" /\ rt'.pc = "parsed"
    /\ Fresh(rt.resp.ct.pt[1], nowEpoch)

\* an IPv4 address, or an IPv6 address that is not IPv4-mapped and has no zone
PlainAddr(a) ==
    \/ a.fam = "v4"
    \/ a.fam = "v6" /\ a.hi # "mapped" /\ a.zone = ""

\* the address without its zone, an IPv4-mapped one as the IPv4 address, the
\* zero Addr as the unspecified IPv6 address
Canonical(a) ==
    IF a.fam # "zero" /\ a.hi = "mapped" THEN Addr4(a.lo) ELSE Addr6(a.hi, a.lo, "")

\* C3 as stated: Handle of a fresh request from PutRequest succeeds, and
\* ParseResponse of the response returns exactly the address and port that
\* were passed to Handle.
C3_RoundTripStated ==
    [][/\ RtHandleFresh => rt'.err = Nil /\ rt'.resp.len = ResponsePacketSize
       /\ RtParseFresh =>
            /\ rt'.parsed.err = Nil
            /\ rt'.parsed.addrPort = rt.clientAddrPort]_vars

\* C3 as amended: Handle of a fresh request from PutRequest succeeds, and
\* ParseResponse of the response returns the port and the address unmapped
\* and without zone: exactly the address passed to Handle when that is an
\* IPv4 address or an IPv6 address neither IPv4-mapped nor zoned.
C3_RoundTrip ==
    [][/\ RtHandleFresh => rt'.err = Nil /\ rt'.resp.len = ResponsePacketSize
       /\ RtParseFresh =>
            /\ rt'.parsed.err = Nil
            /\ rt'.parsed.addrPort.port = rt.clientAddrPort.port
            /\ rt'.parsed.addrPort.addr = Canonical(rt.clientAddrPort.addr)
            /\ PlainAddr(rt.clientAddrPort.addr)
                 => rt'.parsed.addrPort = rt.clientAddrPort]_vars

\* an IPv4 peer seen on a dual-stack socket comes back as the IPv4 address
C3_Witness ==
    /\ rt.pc = "parsed"
    /\ rt.parsed.err = Nil
    /\ rt.clientAddrPort = AddrPortFrom(Addr6("mapped", 5, ""), 60000)
    /\ rt.parsed.addrPort = AddrPortFrom(Addr4(5), 60000)

\* ======================================================== the receive loop
\* server.Server: Start, the receive loop and Stop.  One iteration of the
\* loop is one step: the loop shares nothing with Stop but the socket's read
\* deadline and the wait group.
ErrRead == "read error"
ErrFlags == "delivery flags error"
ErrWrite == "write error"
ErrListen == "listen error"

\* conn.ParseFlagsForError: a datagram delivered with a flag set is an error
ParseFlagsForError(flags) == IF flags = 0 THEN Nil ELSE ErrFlags

\* the response buffer sent also when Handle failed
recv_NoContinue(np, rd, werr, t, epoch, respNonce) ==
    IF rd.err # Nil
    THEN [out |-> "Failed to receive packet", np |-> np, herr |-> Nil,
          wrote |-> FALSE, to |-> NoAddrPort, resp |-> NoPacket]
    ELSE IF ParseFlagsForError(rd.flags) # Nil
    THEN [out |-> "Failed to receive packet", np |-> np, herr |-> Nil,
          wrote |-> FALSE, to |-> NoAddrPort, resp |-> NoPacket]
    ELSE LET h == Handle(PSK, np, rd.clientAddrPort, rd.req, t, epoch, respNonce)
         IN  [out |-> IF werr # Nil THEN "Failed to send response"
                      ELSE "Handled request",
              np |-> h.np, herr |-> h.err,
              wrote |-> TRUE, to |-> rd.clientAddrPort, resp |-> h.resp]

\* the body of the loop after a read that did not hit the deadline: rd is
\* what ReadMsgUDPAddrPort returned (rd.req is reqBuf[:n]), werr what
\* WriteToUDPAddrPort returns if it is called
recv(np, rd, werr, t, epoch, respNonce) ==
    IF rd.err # Nil
    THEN [out |-> "Failed to receive packet", np |-> np, herr |-> Nil,
          wrote |-> FALSE, to |-> NoAddrPort, resp |-> NoPacket]
    ELSE IF ParseFlagsForError(rd.flags) # Nil
    THEN [out |-> "Failed to receive packet", np |-> np, herr |-> Nil,
          wrote |-> FALSE, to |-> NoAddrPort, resp |-> NoPacket]
    ELSE LET h == Handle(PSK, np, rd.clientAddrPort, rd.req, t, epoch, respNonce)
         IN  IF h.err # Nil
             THEN [out |-> "Failed to handle request", np |-> h.np, herr |-> h.err,
                   wrote |-> FALSE, to |-> NoAddrPort, resp |-> NoPacket]
             ELSE [out |-> IF werr # Nil THEN "Failed to send response"
                           ELSE "Handled request",
                   np |-> h.np, herr |-> Nil,
                   wrote |-> TRUE, to |-> rd.clientAddrPort, resp |-> h.resp]

\* the peers the socket reports: an IPv4 peer of a dual-stack socket, and an
\* IPv6 peer
SrvPeers ==
    {AddrPortFrom(Addr6("mapped", 5, ""), 60000),
     AddrPortFrom(Addr6("2001:db8::", 1, ""), 443)}

\* the datagrams, as read into the 49-byte request buffer
SrvRequests(epoch) ==
    {PutRequest(PSK, n, epoch + o) : n \in Nonces, o \in {0, MaxEpochDiff + 1}}
    \cup {Packet(1, Seal(OtherKey, 1, <<ToUint64(epoch), MessageTypeRequest>>)),
          Packet(1, Seal(PSK, 1, <<ToUint64(epoch), MessageTypeResponse>>)),
          [PutRequest(PSK, 1, epoch) EXCEPT !.len = RequestPacketSize - 1]}

Reads(epoch) ==
    {[err |-> Nil, flags |-> f, req |-> r, clientAddrPort |-> a] :
        f \in {0, 1}, r \in SrvRequests(epoch), a \in SrvPeers}
    \cup {[err |-> ErrRead, flags |-> 0, req |-> NoPacket, clientAddrPort |-> NoAddrPort]}

SrvInit ==
    /\ ClockInit
    /\ noncePool = NewServer(0)
    /\ ObsInit
    /\ parity = 0
    /\ poolOp = NoPoolOp
    /\ TsIdle /\ RtIdle /\ SrvIdle /\ ClIdle

SrvAdvance(d) == Tick(d, MaxTime)

\* Start: the socket is opened and the loop started, or ListenPacket fails
Start(err) ==
    /\ srv.start = "none"
    /\ srv' = IF err # Nil
              THEN [srv EXCEPT !.start = "failed"]
              ELSE [srv EXCEPT !.start = "started", !.serverConn = "open",
                               !.recv = "running"]
    /\ UNCHANGED <<coreVars, tsCase, rt, io, cli>>

\* a read that returns os.ErrDeadlineExceeded: the loop is left
ServerRecvDeadline ==
    /\ srv.recv = "running"
    /\ srv.deadline = "past"
    /\ srv' = [srv EXCEPT !.recv = "exited"]
    /\ io' = [NoIo EXCEPT !.out = "exit"]
    /\ parity' = 1 - parity
    /\ UNCHANGED <<now, wallOff, noncePool, last, accepted, replays, poolOp,
                   tsCase, rt, cli>>

\* a read that returns a datagram or another error, and the rest of the
\* iteration
ServerRecv(rd, werr) ==
    /\ srv.recv = "running"
    /\ srv.deadline = "none"
    /\ LET r == recv(noncePool, rd, werr, now, nowEpoch, RespNonce)
       IN  /\ noncePool' = r.np
           /\ io' = [out |-> r.out, rd |-> rd, herr |-> r.herr,
                     wrote |-> r.wrote, to |-> r.to, resp |-> r.resp]
    /\ parity' = 1 - parity
    /\ UNCHANGED <<now, wallOff, last, accepted, replays, poolOp,
                   tsCase, rt, srv, cli>>

\* Stop, up to wg.Wait
StopSetReadDeadline ==
    /\ srv.stop = "none"
    /\ srv.start # "none"
    /\ srv' = IF srv.serverConn = "nil"
              THEN [srv EXCEPT !.stop = "returned"]
              ELSE [srv EXCEPT !.stop = "waiting", !.deadline = "past",
                               !.stoppedAt = srv.recv]
    /\ UNCHANGED <<coreVars, tsCase, rt, io, cli>>

\* s.wg.Wait returns: the goroutine of Start has called s.wg.Done
StopWait_NoWait(s) == TRUE
StopWait(s) == s.recv = "exited"

\* Stop, from wg.Wait returning
StopClose ==
    /\ srv.stop = "waiting"
    /\ StopWait(srv)
    /\ srv' = [srv EXCEPT !.stop = "returned", !.serverConn = "closed"]
    /\ UNCHANGED <<coreVars, tsCase, rt, io, cli>>

SrvNext ==
    \/ \E d \in Steps : SrvAdvance(d)
    \/ \E err \in {Nil, ErrListen} : Start(err)
    \/ ServerRecvDeadline
    \/ \E rd \in Reads(nowEpoch), werr \in {Nil, ErrWrite} : ServerRecv(rd, werr)
    \/ StopSetReadDeadline
    \/ StopClose

SpecServer == SrvInit /\ [][SrvNext]_vars

\* this step is an iteration of the loop that read something
RecvStep == parity' # parity /\ io'.out \notin {"none", "exit"}

\* C4: the loop writes a response exactly when the read returned no error,
\* the delivery flags none and the request passed every step of Handle; the
\* response goes to the source the read reported and carries that address
\* and port, and is otherwise made of the clock and the random nonce only.
C4_ReplyOnlyToAcceptedSource ==
    [][RecvStep =>
        LET rd == io'.rd
            src == rd.clientAddrPort
        IN  /\ io'.wrote <=>
                 /\ rd.err = Nil
                 /\ rd.flags = 0
                 /\ FirstFailure(rd.req, noncePool, now, nowEpoch) = Nil
            /\ io'.wrote =>
                 /\ io'.herr = Nil
                 /\ io'.to = src
                 /\ io'.resp =
                      Packet(RespNonce,
                             Seal(PSK, RespNonce,
                                  <<ToUint64(nowEpoch), MessageTypeResponse,
                                    As16(src.addr), PutUint16(src.port)>>))
            /\ ~io'.wrote => io'.resp = NoPacket /\ io'.to = NoAddrPort]_vars

C4_Witness ==
    /\ io.out = "Handled request"
    /\ io.wrote
    /\ io.to = io.rd.clientAddrPort
    /\ io.to = AddrPortFrom(Addr6("mapped", 5, ""), 60000)
    /\ Open(PSK, io.resp.nonce, io.resp.ct).pt[3] = As16(io.to.addr)

\* ================================================ the message type check
\* Server.Handle and Client.ParseResponse, each given datagrams of its own
\* size sealed under the PSK that carry either message type.
\* 75-byte datagrams: responses as Handle builds them, the same with the
\* request's message type, stale ones, and one that does not open
DirResponses(epoch) ==
    {Packet(n, Seal(PSK, n, <<ToUint64(epoch + o), ty,
                              As16(Addr4(5)), PutUint16(443)>>)) :
        n \in Nonces, o \in {0, MaxEpochDiff + 1},
        ty \in {MessageTypeRequest, MessageTypeResponse}}
    \cup {Packet(1, Seal(OtherKey, 1, <<ToUint64(epoch), MessageTypeRequest,
                                        As16(Addr4(5)), PutUint16(443)>>)),
          PutRequest(PSK, 1, epoch)}

\* 49-byte datagrams: requests as PutRequest seals them, the same with the
\* response's message type, stale ones, and one that does not open
DirRequests(epoch) ==
    {Packet(n, Seal(PSK, n, <<ToUint64(epoch + o), ty>>)) :
        n \in Nonces, o \in {0, MaxEpochDiff + 1},
        ty \in {MessageTypeRequest, MessageTypeResponse}}
    \cup {Packet(1, Seal(OtherKey, 1, <<ToUint64(epoch), MessageTypeResponse>>))}

DirInit ==
    /\ ClockInit
    /\ noncePool = NewServer(0)
    /\ ObsInit
    /\ parity = 0
    /\ poolOp = NoPoolOp
    /\ TsIdle /\ RtIdle /\ SrvIdle /\ ClIdle

DirAdvance(d) == Tick(d, MaxTime)

\* server.Handle(clientAddrPort, req, resp)
DirHandle(req) ==
    /\ LET h == Handle(PSK, noncePool, Peer, req, now, nowEpoch, RespNonce)
       IN  /\ noncePool' = h.np
           /\ rt' = [rt EXCEPT !.pc = "handled", !.clientAddrPort = Peer,
                               !.req = req, !.err = h.err, !.resp = h.resp]
    /\ parity' = 1 - parity
    /\ UNCHANGED <<now, wallOff, last, accepted, replays, poolOp,
                   tsCase, srv, io, cli>>

\* client.ParseResponse(resp)
DirParseResponse(resp) ==
    /\ rt' = [rt EXCEPT !.pc = "parsed", !.resp = resp,
                        !.parsed = ParseResponse(PSK, resp, nowEpoch)]
    /\ parity' = 1 - parity
    /\ UNCHANGED <<now, wallOff, noncePool, last, accepted, replays, poolOp,
                   tsCase, srv, io, cli>>

DirNext ==
    \/ \E d \in Steps : DirAdvance(d)
    \/ \E req \in DirRequests(nowEpoch) : DirHandle(req)
    \/ \E resp \in DirResponses(nowEpoch) : DirParseResponse(resp)

SpecDirection == DirInit /\ [][DirNext]_vars

DirHandleStep == parity' # parity /\ rt'.pc = "handled"
DirParseStep == parity' # parity /\ rt'.pc = "parsed"

\* a response-sized datagram that opens under the PSK with a fresh timestamp
ValidatedResponse(resp, epoch) ==
    /\ resp.len = ResponsePacketSize
    /\ Opens(resp)
    /\ Fresh(resp.ct.pt[1], epoch)

\* C11 as stated: a packet of the right size that authenticates under the
\* PSK with a fresh timestamp but carries the other direction's message type
\* is rejected with ErrBadMessageType: Handle writes no response for a type
\* other than Request, ParseResponse returns no address for a type other
\* than Response.
C11_WrongTypeRejectedStated ==
    [][/\ DirHandleStep /\ Validated(rt'.req, nowEpoch)
            /\ rt'.req.ct.pt[2] # MessageTypeRequest
          => rt'.err = ErrBadMessageType /\ rt'.resp = NoPacket
       /\ DirParseStep /\ ValidatedResponse(rt'.resp, nowEpoch)
            /\ rt'.resp.ct.pt[2] # MessageTypeResponse
          => /\ rt'.parsed.err = ErrBadMessageType
             /\ rt'.parsed.addrPort = NoAddrPort]_vars

\* C11 as amended: such a packet is always rejected, Handle writing no
\* response and ParseResponse returning no address.  ParseResponse reports
\* ErrBadMessageType; Handle reports ErrBadMessageType, having inserted the
\* nonce, unless the pool holds the packet's nonce after the call's sweep,
\* which it reports as ErrRepeatedNonce.
C11_WrongTypeRejected ==
    [][/\ DirHandleStep /\ Validated(rt'.req, nowEpoch)
            /\ rt'.req.ct.pt[2] # MessageTypeRequest
          => /\ rt'.resp = NoPacket
             /\ rt'.err = IF Kept(noncePool, rt'.req.nonce, now)
                          THEN ErrRepeatedNonce ELSE ErrBadMessageType
             /\ rt'.err = ErrBadMessageType
                  => /\ InPool(noncePool', rt'.req.nonce)
                     /\ noncePool'.pool[rt'.req.nonce] = now
       /\ DirParseStep /\ ValidatedResponse(rt'.resp, nowEpoch)
            /\ rt'.resp.ct.pt[2] # MessageTypeResponse
          => /\ rt'.parsed.err = ErrBadMessageType
             /\ rt'.parsed.addrPort = NoAddrPort]_vars

\* both decoders have rejected a packet of the other direction, the client
\* last
C11_Witness ==
    /\ rt.pc = "parsed"
    /\ ValidatedResponse(rt.resp, nowEpoch)
    /\ rt.resp.ct.pt[2] = MessageTypeRequest
    /\ rt.parsed = [addrPort |-> NoAddrPort, err |-> ErrBadMessageType]
    /\ rt.err = ErrBadMessageType
    /\ rt.req.ct.pt[2] = MessageTypeResponse

\* ================================================================ the client
\* client.Client: one call of Run, by Get or by another caller.  The send
\* activity, the receive activity and the context.AfterFunc callback are
\* goroutines; resultCh is unbuffered, so a Result passes from an activity
\* at its send statement to the caller in one step.  An activity takes its
\* steps as soon as it can, and a timer fires when it is due: time passes
\* only when every goroutine is blocked.  Datagrams, the caller's cancel and
\* the reads of a caller other than Get come at any time.
defaultInterval == 2 * Second
defaultOneShotAttempts == 5
MaxEvents == 3
ClMaxTime == defaultInterval + 2

ServerAddrPort == AddrPortFrom(Addr4(9), 443)

\* Get, lines 83-90: the defaults and the deadline of the context
GetInterval(interval) == IF interval = 0 THEN defaultInterval ELSE interval
GetAttempts(attempts) == IF attempts = 0 THEN defaultOneShotAttempts ELSE attempts
WithTimeout_OneIntervalShort(t, interval, attempts) == t + interval * (attempts - 1)
WithTimeout(t, interval, attempts) == t + interval * attempts

\* the send activity, from PutRequest to the select: werr is what
\* WriteToUDPAddrPort returned
ClientSend_Silent(serverAddrPort, werr) == [emit |-> FALSE, result |-> NoResult]
ClientSend(serverAddrPort, werr) ==
    IF werr # Nil
    THEN [emit |-> TRUE,
          result |-> ErrResult(Error("failed to send request", serverAddrPort,
                                     RequestPacketSize, werr))]
    ELSE [emit |-> FALSE, result |-> NoResult]

\* the receive activity emitting an outcome for the forced deadline as well
ClientRecv_EmitsOnDeadline(psk, rd, epoch) ==
    IF rd.err # Nil
    THEN [ret |-> FALSE, emit |-> TRUE,
          result |-> ErrResult(Error("failed to receive packet", rd.src,
                                     rd.resp.len, rd.err))]
    ELSE IF ParseFlagsForError(rd.flags) # Nil
    THEN [ret |-> FALSE, emit |-> TRUE,
          result |-> ErrResult(Error("failed to receive packet", rd.src,
                                     rd.resp.len, ParseFlagsForError(rd.flags)))]
    ELSE LET p == ParseResponse(psk, rd.resp, epoch)
         IN  IF p.err # Nil
             THEN [ret |-> FALSE, emit |-> TRUE,
                   result |-> ErrResult(Error("failed to parse response", rd.src,
                                              rd.resp.len, p.err))]
             ELSE [ret |-> FALSE, emit |-> TRUE, result |-> OkResult(p.addrPort)]

\* a datagram whose source is not the configured server reported as a failure
ClientRecv_SourceChecked(psk, rd, epoch) ==
    IF rd.err # Nil
    THEN IF rd.err = ErrDeadlineExceeded
         THEN [ret |-> TRUE, emit |-> FALSE, result |-> NoResult]
         ELSE [ret |-> FALSE, emit |-> TRUE,
               result |-> ErrResult(Error("failed to receive packet", rd.src,
                                          rd.resp.len, rd.err))]
    ELSE IF rd.src # ServerAddrPort
    THEN [ret |-> FALSE, emit |-> TRUE,
          result |-> ErrResult(Error("failed to receive packet", rd.src,
                                     rd.resp.len, ErrRead))]
    ELSE ClientRecv_EmitsOnDeadline(psk, rd, epoch)

\* the receive activity, from ReadMsgUDPAddrPort to the send on resultCh: rd
\* is what the read returned
ClientRecv(psk, rd, epoch) ==
    IF rd.err # Nil
    THEN IF rd.err = ErrDeadlineExceeded
         THEN [ret |-> TRUE, emit |-> FALSE, result |-> NoResult]
         ELSE [ret |-> FALSE, emit |-> TRUE,
               result |-> ErrResult(Error("failed to receive packet", rd.src,
                                          rd.resp.len, rd.err))]
    ELSE IF ParseFlagsForError(rd.flags) # Nil
    THEN [ret |-> FALSE, emit |-> TRUE,
          result |-> ErrResult(Error("failed to receive packet", rd.src,
                                     rd.resp.len, ParseFlagsForError(rd.flags)))]
    ELSE LET p == ParseResponse(psk, rd.resp, epoch)
         IN  IF p.err # Nil
             THEN [ret |-> FALSE, emit |-> TRUE,
                   result |-> ErrResult(Error("failed to parse response", rd.src,
                                              rd.resp.len, p.err))]
             ELSE [ret |-> FALSE, emit |-> TRUE, result |-> OkResult(p.addrPort)]

\* Get's loop body, lines 100-105
GetNext(clientErr, result) ==
    IF IsOk(result)
    THEN [ret |-> TRUE, addrPort |-> result.ClientAddrPort, err |-> NoError,
          clientErr |-> clientErr]
    ELSE [ret |-> FALSE, addrPort |-> NoAddrPort, err |-> NoError,
          clientErr |-> result.Err]

\* Get after the loop, lines 107-110
GetClosed_AlwaysDeadline(clientErr) ==
    [addrPort |-> NoAddrPort, err |-> PlainError(ContextDeadlineExceeded)]
GetClosed(clientErr) ==
    IF clientErr.Err = Nil
    THEN [addrPort |-> NoAddrPort, err |-> PlainError(ContextDeadlineExceeded)]
    ELSE [addrPort |-> NoAddrPort, err |-> clientErr]

\* wg.Wait returns: both activities have returned
Wait_ForReceiveOnly(c) == c.rcv = "done"
Wait(c) == c.snd = "done" /\ c.rcv = "done"

\* the select of the send activity takes the timer: the timer is due, and
\* the context has no deadline at or before it (Get's deadline is set before
\* any timer is started, so with equal readings it is the earlier one)
TimerFires(c, t) ==
    /\ t >= c.when
    /\ ~(c.deadline >= 0 /\ c.deadline <= c.when)

DeadlineDue(c, t) == ~c.done /\ c.deadline >= 0 /\ t >= c.deadline

\* the datagrams and errors a read returns while no deadline is forced: a
\* response of the server, the same delivered with a flag set, one sealed
\* under another key, and a read error
ClResponse(epoch) ==
    Packet(RespNonce, Seal(PSK, RespNonce,
                           <<ToUint64(epoch), MessageTypeResponse,
                             As16(Peer.addr), PutUint16(Peer.port)>>))
ClReads(epoch) ==
    {[err |-> Nil, flags |-> 0, resp |-> ClResponse(epoch), src |-> ServerAddrPort],
     [err |-> Nil, flags |-> 1, resp |-> ClResponse(epoch), src |-> ServerAddrPort],
     [err |-> Nil, flags |-> 0, src |-> ServerAddrPort,
      resp |-> Packet(RespNonce, Seal(OtherKey, RespNonce, ClResponse(epoch).ct.pt))],
     [err |-> ErrRead, flags |-> 0, resp |-> NoPacket, src |-> NoAddrPort]}
DeadlineRead ==
    [err |-> ErrDeadlineExceeded, flags |-> 0, resp |-> NoPacket, src |-> NoAddrPort]

\* the arguments of Get and Run
GetArgs == {<<0, 1>>, <<1, 0>>, <<2, 2>>}
RunIntervals == {0, 3}

srvSide == <<wallOff, noncePool, last, accepted, replays, parity, poolOp,
             tsCase, rt, srv, io>>

ClInit ==
    /\ ClockInit
    /\ noncePool = NewServer(0)
    /\ ObsInit
    /\ parity = 0
    /\ poolOp = NoPoolOp
    /\ TsIdle /\ RtIdle /\ SrvIdle /\ ClIdle

\* Run, lines 114-183: err is what SetReadDeadline(time.Time{}) returned
Run(c, interval, err) ==
    IF err # Nil
    THEN c
    ELSE [c EXCEPT !.interval = GetInterval(interval), !.rdl = "none",
                   !.snd = "loop", !.rcv = "read", !.cb = "armed"]

\* Get is called, and calls Run
ClGet(interval, attempts, err) ==
    /\ cli.caller = "none"
    /\ LET c == [cli EXCEPT !.caller = "Get", !.t0 = now,
                            !.attempts = GetAttempts(attempts),
                            !.deadline = WithTimeout(now, GetInterval(interval),
                                                     GetAttempts(attempts))]
           r == Run(c, GetInterval(interval), err)
       IN  cli' = IF err # Nil
                  THEN [r EXCEPT !.get = "returned", !.done = TRUE,
                                 !.ret = [addrPort |-> NoAddrPort,
                                          err |-> PlainError(err)]]
                  ELSE [r EXCEPT !.get = "range"]
    /\ UNCHANGED <<now, srvSide>>

\* Run is called by another caller
ClRun(interval, err) ==
    /\ cli.caller = "none"
    /\ cli' = Run([cli EXCEPT !.caller = "Run", !.t0 = now], interval, err)
    /\ UNCHANGED <<now, srvSide>>

\* the caller cancels the context
ClCancel ==
    /\ cli.snd # "none"
    /\ ~cli.done
    /\ cli' = [cli EXCEPT !.done = TRUE, !.cancelled = TRUE]
    /\ UNCHANGED <<now, srvSide>>

\* the deadline of the context passes
ClCtxDeadline ==
    /\ DeadlineDue(cli, now)
    /\ cli' = [cli EXCEPT !.done = TRUE]
    /\ UNCHANGED <<now, srvSide>>

\* send activity, lines 129-133
ClSend(werr) ==
    /\ cli.snd = "loop"
    /\ werr # Nil => Len(cli.events) < MaxEvents
    /\ LET r == ClientSend(ServerAddrPort, werr)
           ev == IF werr # Nil THEN Append(cli.events, "send") ELSE cli.events
       IN  cli' = [cli EXCEPT
                     !.sends = Append(@, now),
                     !.events = ev,
                     !.werrs = IF werr # Nil THEN @ + 1 ELSE @,
                     !.snd = IF r.emit THEN "emit" ELSE "wait",
                     !.sndOut = r.result,
                     !.sndEv = IF r.emit THEN Len(ev) ELSE 0,
                     !.when = now + cli.interval]
    /\ UNCHANGED <<now, srvSide>>

\* send activity, lines 135-137: the select takes ctx.Done()
ClSendWaitDone ==
    /\ cli.snd = "wait"
    /\ cli.done
    /\ cli' = [cli EXCEPT !.snd = "done"]
    /\ UNCHANGED <<now, srvSide>>

\* send activity, line 138: the select takes time.After(interval)
ClSendWaitTimer ==
    /\ cli.snd = "wait"
    /\ TimerFires(cli, now)
    /\ cli' = [cli EXCEPT !.snd = "loop"]
    /\ UNCHANGED <<now, srvSide>>

\* receive activity, lines 147-166, to the send on resultCh
ClRecvRead(rd) ==
    /\ cli.rcv = "read"
    /\ IF cli.rdl = "past" THEN rd = DeadlineRead
       ELSE rd # DeadlineRead /\ Len(cli.events) < MaxEvents
    /\ LET r == ClientRecv(PSK, rd, nowEpoch)
           isEvent == rd # DeadlineRead
           ev == IF isEvent THEN Append(cli.events, "recv") ELSE cli.events
       IN  cli' = [cli EXCEPT
                     !.rd = rd,
                     !.events = ev,
                     !.reads = IF isEvent THEN @ + 1 ELSE @,
                     !.sawOk = @ \/ (r.emit /\ IsOk(r.result)),
                     !.rcv = IF r.ret THEN "done"
                             ELSE IF r.emit THEN "emit" ELSE "read",
                     !.rcvOut = r.result,
                     !.rcvEv = IF r.emit THEN Len(ev) ELSE 0]
    /\ UNCHANGED <<now, srvSide>>

\* receive activity, lines 168-173: the select after a success
ClRecvSelect ==
    /\ cli.rcv = "select"
    /\ cli' = [cli EXCEPT !.rcv = IF cli.done THEN "done" ELSE "read"]
    /\ UNCHANGED <<now, srvSide>>

\* an activity's send on resultCh completes: who is "snd" or "rcv"
Pending(c, who) == IF who = "snd" THEN c.snd = "emit" ELSE c.rcv = "emit"
Sent(c, who, t) ==
    IF who = "snd"
    THEN [c EXCEPT !.snd = "wait", !.when = t + c.interval,
                   !.delivered = Append(@, c.sndEv),
                   !.lastErr = IF IsOk(c.sndOut) THEN @ ELSE c.sndOut.Err,
                   !.firstOk = IF IsOk(c.sndOut) /\ ~IsValid(@)
                               THEN c.sndOut.ClientAddrPort ELSE @]
    ELSE [c EXCEPT !.rcv = IF IsOk(c.rcvOut) THEN "select" ELSE "read",
                   !.delivered = Append(@, c.rcvEv),
                   !.lastErr = IF IsOk(c.rcvOut) THEN @ ELSE c.rcvOut.Err,
                   !.firstOk = IF IsOk(c.rcvOut) /\ ~IsValid(@)
                               THEN c.rcvOut.ClientAddrPort ELSE @]
Out(c, who) == IF who = "snd" THEN c.sndOut ELSE c.rcvOut

\* Get receives a Result, lines 100-105
ClGetRecv(who) ==
    /\ cli.get = "range"
    /\ Pending(cli, who)
    /\ LET g == GetNext(cli.clientErr, Out(cli, who))
       IN  cli' = [Sent(cli, who, now) EXCEPT
                     !.clientErr = g.clientErr,
                     !.get = IF g.ret THEN "return" ELSE "range",
                     !.ret = [addrPort |-> g.addrPort, err |-> g.err]]
    /\ UNCHANGED <<now, srvSide>>

\* Get finds resultCh closed, lines 107-110
ClGetClosed ==
    /\ cli.get = "range"
    /\ cli.closed
    /\ ~Pending(cli, "snd") /\ ~Pending(cli, "rcv")
    /\ cli' = [cli EXCEPT !.get = "return", !.ret = GetClosed(cli.clientErr)]
    /\ UNCHANGED <<now, srvSide>>

\* Get returns, its deferred cancel running
ClGetReturn ==
    /\ cli.get = "return"
    /\ cli' = [cli EXCEPT !.get = "returned", !.done = TRUE]
    /\ UNCHANGED <<now, srvSide>>

\* a caller other than Get receives a Result
ClRunRecv(who) ==
    /\ cli.caller = "Run"
    /\ Pending(cli, who)
    /\ cli' = Sent(cli, who, now)
    /\ UNCHANGED <<now, srvSide>>

\* the callback, line 178
ClCbSetReadDeadline ==
    /\ cli.cb = "armed"
    /\ cli.done
    /\ cli' = [cli EXCEPT !.cb = "wait", !.rdl = "past"]
    /\ UNCHANGED <<now, srvSide>>

\* the callback, line 179
ClCbWait ==
    /\ cli.cb = "wait"
    /\ Wait(cli)
    /\ cli' = [cli EXCEPT !.cb = "close"]
    /\ UNCHANGED <<now, srvSide>>

\* the callback, line 180
ClCbClose ==
    /\ cli.cb = "close"
    /\ cli' = [cli EXCEPT !.cb = "done", !.closed = TRUE, !.closes = @ + 1]
    /\ UNCHANGED <<now, srvSide>>

\* some goroutine can take a step now
Runnable(c, t) ==
    \/ c.snd = "loop"
    \/ c.snd = "wait" /\ (c.done \/ TimerFires(c, t))
    \/ c.rcv = "read" /\ c.rdl = "past"
    \/ c.rcv = "select"
    \/ c.cb = "armed" /\ c.done
    \/ c.cb = "wait" /\ Wait(c)
    \/ c.cb = "close"
    \/ DeadlineDue(c, t)
    \/ c.get = "range" /\ (Pending(c, "snd") \/ Pending(c, "rcv") \/ c.closed)
    \/ c.get = "return"

ClTick ==
    /\ cli.caller # "none"
    /\ ~Runnable(cli, now)
    /\ now < ClMaxTime
    /\ now' = now + 1
    /\ UNCHANGED <<srvSide, cli>>

Activities ==
    \/ ClCtxDeadline
    \/ \E werr \in {Nil, ErrWrite} : ClSend(werr)
    \/ ClSendWaitDone
    \/ ClSendWaitTimer
    \/ ClRecvRead(DeadlineRead)
    \/ ClRecvSelect
    \/ \E who \in {"snd", "rcv"} : ClGetRecv(who)
    \/ ClGetClosed
    \/ ClGetReturn
    \/ ClCbSetReadDeadline
    \/ ClCbWait
    \/ ClCbClose

ClNext ==
    \/ \E a \in GetArgs, err \in {Nil, ErrSetReadDeadline} : ClGet(a[1], a[2], err)
    \/ \E i \in RunIntervals, err \in {Nil, ErrSetReadDeadline} : ClRun(i, err)
    \/ ClCancel
    \/ \E rd \in ClReads(nowEpoch) : ClRecvRead(rd)
    \/ \E who \in {"snd", "rcv"} : ClRunRecv(who)
    \/ ClTick
    \/ Activities

SpecClient == ClInit /\ [][ClNext]_vars

\* C12: in every Run, whatever the interleaving of the send activity, the
\* receive activity and the callback, resultCh is closed at most once and
\* exactly once when the callback has finished; it is closed only after both
\* activities have returned, so that no activity is at a send on resultCh, or
\* comes to one, once it is closed.
C12_ClosedOnceAfterBothReturned ==
    /\ cli.closes <= 1
    /\ cli.closed <=> cli.closes = 1
    /\ cli.cb = "done" <=> cli.closed
    /\ cli.closed => /\ cli.snd = "done" /\ cli.rcv = "done"
                     /\ ~Pending(cli, "snd") /\ ~Pending(cli, "rcv")
    /\ cli.cb = "close" => cli.snd = "done" /\ cli.rcv = "done"

\* closed after both activities had sent an outcome
C12_Witness ==
    /\ cli.closed
    /\ cli.closes = 1
    /\ cli.snd = "done" /\ cli.rcv = "done"
    /\ \E i, j \in DOMAIN cli.delivered :
          cli.events[cli.delivered[i]] = "send" /\ cli.events[cli.delivered[j]] = "recv"

\* --------------------------------------------------------------- fairness
\* every goroutine that can take a step takes one; a timer that is due
\* fires; time passes when all are blocked.  Nothing is assumed of the
\* network, nor of the caller's cancel, nor of a caller other than Get.
SendSteps ==
    \/ \E werr \in {Nil, ErrWrite} : ClSend(werr)
    \/ ClSendWaitDone
    \/ ClSendWaitTimer
RecvSteps == ClRecvRead(DeadlineRead) \/ ClRecvSelect
CallbackSteps == ClCbSetReadDeadline \/ ClCbWait \/ ClCbClose
GetSteps == (\E who \in {"snd", "rcv"} : ClGetRecv(who)) \/ ClGetClosed \/ ClGetReturn

SpecClientFair ==
    /\ ClInit /\ [][ClNext]_vars
    /\ WF_vars(SendSteps)
    /\ WF_vars(RecvSteps)
    /\ WF_vars(CallbackSteps)
    /\ WF_vars(GetSteps)
    /\ WF_vars(ClCtxDeadline)
    /\ WF_vars(ClTick)

\* C13: once the context of a Run is cancelled, both activities return and
\* resultCh is closed, whether or not the caller goes on receiving.
C13_CancelledEventuallyClosed ==
    (cli.done /\ cli.cb # "none")
        ~> (cli.closed /\ cli.snd = "done" /\ cli.rcv = "done")

\* Get has left its loop
GetLeft(c) == c.get \in {"return", "returned"}

\* C14: Get returns the address of the first success Result as soon as that
\* Result is received, with a nil error; when resultCh is closed without a
\* success it returns no address and the Err of the last Result received,
\* or context.DeadlineExceeded when it received none; it never returns both
\* a valid address and an error.
C14_GetFirstSuccessOrLastError ==
    cli.caller = "Get" /\ cli.cb # "none" =>
        /\ cli.get = "range" => ~IsValid(cli.firstOk)
        /\ IsValid(cli.firstOk) =>
              /\ GetLeft(cli)
              /\ cli.ret = [addrPort |-> cli.firstOk, err |-> NoError]
        /\ GetLeft(cli) /\ ~IsValid(cli.firstOk) =>
              /\ cli.closed
              /\ cli.ret.addrPort = NoAddrPort
              /\ cli.ret.err = IF cli.delivered = << >>
                               THEN PlainError(ContextDeadlineExceeded)
                               ELSE cli.lastErr
              /\ cli.ret.err.Err # Nil
        /\ GetLeft(cli) => (IsValid(cli.ret.addrPort) <=> cli.ret.err = NoError)

\* Get has returned the second of two errors, after the channel was closed
C14_Witness ==
    /\ cli.get = "returned"
    /\ cli.closed
    /\ Len(cli.delivered) = 2
    /\ cli.events[cli.delivered[1]] = "recv"
    /\ cli.ret.addrPort = NoAddrPort
    /\ cli.ret.err.Message = "failed to send request"
    /\ cli.ret.err.Err = ErrWrite

\* C15: a Get with attempts k and interval i whose context the caller does
\* not cancel, and to which no response that parses is delivered, sends
\* exactly k requests, at i, 2i, ..., (k-1)i after the first, leaves its loop
\* only when the deadline k*i after the call has passed, and returns no
\* address and context.DeadlineExceeded or the last error received.
C15_UnansweredGetSendsAllAttempts ==
    /\ cli.caller = "Get" /\ cli.cb # "none"
         => cli.deadline = cli.t0 + cli.attempts * cli.interval
    /\ cli.caller = "Get" /\ cli.cb # "none"
         /\ GetLeft(cli) /\ ~cli.cancelled /\ ~cli.sawOk
         => /\ cli.sends = [j \in 1..cli.attempts |-> cli.t0 + (j - 1) * cli.interval]
            /\ now >= cli.t0 + cli.attempts * cli.interval
            /\ cli.snd = "done"
            /\ cli.ret.addrPort = NoAddrPort
            /\ cli.ret.err \in {PlainError(ContextDeadlineExceeded), cli.lastErr}
            /\ cli.ret.err # NoError

\* Get with the default number of attempts has sent them all and returned
\* context.DeadlineExceeded
C15_Witness ==
    /\ cli.get = "returned"
    /\ ~cli.cancelled /\ ~cli.sawOk
    /\ cli.attempts = defaultOneShotAttempts
    /\ Len(cli.sends) = defaultOneShotAttempts
    /\ cli.ret.err = PlainError(ContextDeadlineExceeded)

\* the events of an activity, those of them whose Result was received, and
\* the one whose Result the activity is sending
Tag(who) == IF who = "snd" THEN "send" ELSE "recv"
Ev(c, who) == IF who = "snd" THEN c.sndEv ELSE c.rcvEv
IdsOf(c, who) == {i \in DOMAIN c.events : c.events[i] = Tag(who)}
DeliveredOf(c, who) ==
    {c.delivered[k] : k \in DOMAIN c.delivered} \cap IdsOf(c, who)
PendingOf(c, who) == IF Pending(c, who) THEN {Ev(c, who)} ELSE {}

RecvReadStep == cli.rcv = "read" /\ cli'.rcv # "read"
\* this step is the receive activity's send on resultCh completing
RecvSentStep == cli.rcv = "emit" /\ cli'.rcv # "emit"
\* the activity is at its send with one new event and this Result
Emits(result) ==
    /\ cli'.rcv = "emit"
    /\ cli'.rcvOut = result
    /\ cli'.events = Append(cli.events, "recv")
    /\ cli'.rcvEv = Len(cli'.events)
    /\ cli'.delivered = cli.delivered

\* C19: in the receive activity a read that fails with the deadline error
\* makes the activity return without an outcome; any other read error, a
\* delivery flag error and a ParseResponse failure each emit one error
\* outcome, and a response that parses emits one success outcome; an
\* outcome is received once, after which the activity reads again, or, after
\* a success with the context cancelled, returns.
C19_ReceiveActivityOutcomes ==
    [][/\ RecvReadStep =>
            LET rd == cli'.rd
                p == ParseResponse(PSK, rd.resp, nowEpoch)
            IN  /\ rd.err = ErrDeadlineExceeded =>
                     /\ cli'.rcv = "done"
                     /\ cli'.events = cli.events /\ cli'.delivered = cli.delivered
                /\ rd.err \notin {Nil, ErrDeadlineExceeded} =>
                     Emits(ErrResult(Error("failed to receive packet", rd.src,
                                           rd.resp.len, rd.err)))
                /\ rd.err = Nil /\ rd.flags # 0 =>
                     Emits(ErrResult(Error("failed to receive packet", rd.src,
                                           rd.resp.len, ErrFlags)))
                /\ rd.err = Nil /\ rd.flags = 0 /\ p.err # Nil =>
                     Emits(ErrResult(Error("failed to parse response", rd.src,
                                           rd.resp.len, p.err)))
                /\ rd.err = Nil /\ rd.flags = 0 /\ p.err = Nil =>
                     Emits(OkResult(p.addrPort)) /\ IsOk(cli'.rcvOut)
       /\ RecvSentStep =>
            /\ cli'.delivered = Append(cli.delivered, cli.rcvEv)
            /\ cli'.events = cli.events
            /\ cli'.rcv = IF IsOk(cli.rcvOut) THEN "select" ELSE "read"
       /\ cli.rcv = "select" /\ cli'.rcv # "select" =>
            /\ cli'.rcv = IF cli.done THEN "done" ELSE "read"
            /\ cli'.events = cli.events /\ cli'.delivered = cli.delivered
       /\ cli.rcv # "done" /\ cli'.rcv = "done" =>
            \/ cli.rcv = "read" /\ cli'.rd.err = ErrDeadlineExceeded
            \/ cli.rcv = "select" /\ cli.done]_vars

\* the activity has returned on the deadline error after a success, a
\* failure to parse and one more error, each received
C19_Witness ==
    /\ cli.rcv = "done"
    /\ cli.rd = DeadlineRead
    /\ Len(cli.delivered) = MaxEvents
    /\ \A i \in DOMAIN cli.events : cli.events[i] = "recv"
    /\ cli.sawOk
    /\ cli.lastErr.Message = "failed to parse response"

\* ============================================== the receive loop, by steps
\* server.Server with the loop's iteration taken apart, so that Stop can be
\* called while the loop is blocked in the read ("running"), between the read
\* and the end of Handle ("handling"), or before the write ("replying").
SrvDeadlineRead ==
    [err |-> ErrDeadlineExceeded, flags |-> 0, req |-> NoPacket,
     clientAddrPort |-> NoAddrPort]

\* where the loop goes when the read has returned, lines 73-84
AfterRead_BreakOnAnyError(rd) == IF rd.err # Nil THEN "exited" ELSE "handling"
AfterRead(rd) ==
    IF rd.err # Nil
    THEN IF rd.err = ErrDeadlineExceeded THEN "exited" ELSE "running"
    ELSE "handling"

SdInit ==
    /\ ClockInit
    /\ noncePool = NewServer(0)
    /\ ObsInit
    /\ parity = 0
    /\ poolOp = NoPoolOp
    /\ TsIdle /\ RtIdle /\ SrvIdle /\ ClIdle

\* lines 72-84: ReadMsgUDPAddrPort returns rd
SdRead(rd) ==
    /\ srv.recv = "running"
    /\ IF srv.deadline = "past" THEN rd = SrvDeadlineRead ELSE rd # SrvDeadlineRead
    /\ srv' = [srv EXCEPT !.recv = AfterRead(rd)]
    /\ io' = [NoIo EXCEPT !.rd = rd,
                          !.out = IF AfterRead(rd) = "exited" THEN "exit"
                                  ELSE IF rd.err # Nil THEN "Failed to receive packet"
                                  ELSE "none"]
    /\ parity' = 1 - parity
    /\ UNCHANGED <<now, wallOff, noncePool, last, accepted, replays, poolOp,
                   tsCase, rt, cli>>

\* lines 85-101: the flags and Handle
SdHandle ==
    /\ srv.recv = "handling"
    /\ LET r == recv(noncePool, io.rd, Nil, now, nowEpoch, RespNonce)
       IN  /\ noncePool' = r.np
           /\ srv' = [srv EXCEPT !.recv = IF r.wrote THEN "replying" ELSE "running"]
           /\ io' = [io EXCEPT !.out = IF r.wrote THEN "none" ELSE r.out,
                               !.herr = r.herr, !.to = r.to, !.resp = r.resp]
    /\ parity' = 1 - parity
    /\ UNCHANGED <<now, wallOff, last, accepted, replays, poolOp,
                   tsCase, rt, cli>>

\* lines 103-112: WriteToUDPAddrPort returns werr
SdWrite(werr) ==
    /\ srv.recv = "replying"
    /\ srv' = [srv EXCEPT !.recv = "running"]
    /\ io' = [io EXCEPT !.wrote = TRUE,
                        !.out = IF werr # Nil THEN "Failed to send response"
                                ELSE "Handled request"]
    /\ parity' = 1 - parity
    /\ UNCHANGED <<now, wallOff, noncePool, last, accepted, replays, poolOp,
                   tsCase, rt, cli>>

SdReadDeadline == SdRead(SrvDeadlineRead)
SdWrites == \E werr \in {Nil, ErrWrite} : SdWrite(werr)

SdNext ==
    \/ \E d \in Steps : SrvAdvance(d)
    \/ \E err \in {Nil, ErrListen} : Start(err)
    \/ \E rd \in Reads(nowEpoch) : SdRead(rd)
    \/ SdReadDeadline
    \/ SdHandle
    \/ SdWrites
    \/ StopSetReadDeadline
    \/ StopClose

SpecShutdown == SdInit /\ [][SdNext]_vars

\* the loop's goroutine runs when it can, a write returns, and Stop goes on
\* when wg.Wait returns; nothing is assumed of the datagrams
SpecShutdownFair ==
    /\ SpecShutdown
    /\ WF_vars(SdReadDeadline)
    /\ WF_vars(SdHandle)
    /\ WF_vars(SdWrites)
    /\ WF_vars(StopClose)

\* C17: Stop after a successful Start forces the read deadline, waits for
\* the loop to exit and only then closes the socket: the socket is never
\* closed while the loop runs, and Stop returns, with the loop exited and
\* the socket closed, wherever the loop was when Stop was called.
C17_StopWaitsThenCloses ==
    /\ [](srv.serverConn = "closed" => srv.recv = "exited" /\ srv.deadline = "past")
    /\ [](srv.stop = "waiting" => srv.deadline = "past" /\ srv.serverConn = "open")
    /\ [](srv.stop = "returned" /\ srv.start = "started"
            => srv.serverConn = "closed" /\ srv.recv = "exited")
    /\ \A at \in {"running", "handling", "replying"} :
          (srv.stop = "waiting" /\ srv.stoppedAt = at)
             ~> (srv.stop = "returned" /\ srv.serverConn = "closed")

\* Stop has returned, having been called while the loop was about to reply
C17_Witness ==
    /\ srv.stop = "returned"
    /\ srv.stoppedAt = "replying"
    /\ srv.serverConn = "closed"
    /\ srv.recv = "exited"
    /\ io.out = "exit"

\* C18: the loop exits only when a read returns the deadline error: after
\* any other read error, a delivery flag error, a Handle error and a failed
\* write it is back at the read, whatever the datagrams.
C18_ExitsOnlyOnDeadline ==
    [][/\ srv.recv # "exited" /\ srv'.recv = "exited"
            => srv.recv = "running" /\ io'.rd.err = ErrDeadlineExceeded
       /\ srv.recv = "running" /\ parity' # parity =>
            /\ io'.rd.err = ErrDeadlineExceeded <=> srv'.recv = "exited"
            /\ io'.rd.err \notin {Nil, ErrDeadlineExceeded} =>
                 srv'.recv = "running" /\ io'.out = "Failed to receive packet"
            /\ io'.rd.err = Nil => srv'.recv = "handling"
       /\ srv.recv = "handling" /\ parity' # parity =>
            /\ io.rd.flags # 0 =>
                 srv'.recv = "running" /\ io'.out = "Failed to receive packet"
            /\ io.rd.flags = 0 /\ FirstFailure(io.rd.req, noncePool, now, nowEpoch) # Nil =>
                 srv'.recv = "running" /\ io'.out = "Failed to handle request"
            /\ io.rd.flags = 0 /\ FirstFailure(io.rd.req, noncePool, now, nowEpoch) = Nil =>
                 srv'.recv = "replying"
       /\ srv.recv = "replying" /\ parity' # parity => srv'.recv = "running"
       /\ srv.recv = "exited" => srv'.recv = "exited"]_vars

\* the loop is back at the read after a write that failed
C18_Witness ==
    /\ srv.recv = "running"
    /\ io.out = "Failed to send response"
    /\ io.wrote
    /\ srv.deadline = "none"

\* C20: a pool with retention r keeps every added nonce for at least r and
\* for less than 2 * r after its Add: entries leave the pool only in a Check,
\* only when more than r has passed since the last sweep, and then exactly
\* the entries older than r leave; once a Check has run, no entry that was
\* added 2 * r or longer ago is left.
C20_KeptAtLeastRetentionLessThanTwice ==
    [][/\ DOMAIN noncePool.pool \ DOMAIN noncePool'.pool # {}
            => /\ CheckStep
               /\ SweepDue(noncePool, now)
       /\ CheckStep /\ SweepDue(noncePool, now)
            => /\ DOMAIN noncePool'.pool =
                    {n \in DOMAIN noncePool.pool : now - noncePool.pool[n] <= retention}
               /\ noncePool'.lastClean = now
       /\ CheckStep /\ ~SweepDue(noncePool, now) => noncePool' = noncePool
       /\ CheckStep
            => \A n \in DOMAIN noncePool'.pool :
                  now - noncePool'.pool[n] < 2 * retention]_vars

\* ------------------------------------------- the wall clock set backward
\* time.Now().Unix() reads the wall clock, which an administrator or a time
\* synchronisation step may set back; time.Since and time.Time.Sub in the
\* pool read the monotonic clock, which is not affected.  The amounts the
\* wall clock is set back by:
BackSteps == {MaxTimeDiff, ReplayWindowDuration + Second}

\* the wall clock is set back by d ticks (never before the Unix epoch)
SetBack(d) ==
    /\ now + wallOff - d >= 0
    /\ wallOff' = wallOff - d
    /\ UNCHANGED <<now, noncePool, last, accepted, replays, parity, poolOp>>
    /\ UNCHANGED sideVars

\* the requests handled: fresh ones from PutRequest on a clock in step with
\* the server's, and the requests accepted before
BackRequests(epoch) == {PutRequest(PSK, n, epoch) : n \in Nonces}

SetBackNext ==
    \/ \E d \in Steps : Advance(d)
    \/ \E req \in BackRequests(nowEpoch) \cup accepted :
          ServerHandle(Peer, req, RespNonce)
    \/ \E d \in BackSteps : SetBack(d)

SpecSetBack == Init /\ [][SetBackNext]_vars

\* the wall clock has been set back since the process started
WasSetBack == wallOff < BootEpoch * TicksPerSec

\* C21: when the wall clock can be set back between Handle calls, a request
\* accepted before can be accepted again; every such second acceptance is of
\* a request whose nonce the pool no longer keeps (swept by this call's sweep
\* or an earlier one) and whose timestamp is within MaxEpochDiff of the wall
\* clock as it reads now.
C21_ReplayOnlyWhenSweptAndFresh ==
    [][HandleStep /\ last'.err = Nil /\ last'.req \in accepted
        => /\ ~Kept(noncePool, last'.req.nonce, now)
           /\ Fresh(last'.req.ct.pt[1], nowEpoch)
           /\ last'.req \in replays']_vars

\* a request is accepted a second time after the wall clock was set back, at
\* a moment when the wall clock left alone would have read more than
\* MaxEpochDiff past the request's timestamp
C21_Witness ==
    /\ WasSetBack
    /\ last.op = "Handle"
    /\ last.err = Nil
    /\ last.req \in replays
    /\ ~Fresh(last.req.ct.pt[1], Unix(now, BootEpoch * TicksPerSec))
    /\ Fresh(last.req.ct.pt[1], nowEpoch)

\* ============================================ a response delivered again
\* The receive activity given the same datagram more than once: by the
\* network duplicating it, or by any host that has seen it sending it again
\* from its own address.
MaxDeliveries == 2

\* the address the server has seen the client at
RdPeers == {AddrPortFrom(Addr4(5), 443), AddrPortFrom(Addr6("mapped", 5, ""), 443),
            AddrPortFrom(Addr6("2001:db8", 7, ""), 60000)}

\* the sources ReadMsgUDPAddrPort reports: the configured server and another host
RdSources == {ServerAddrPort, AddrPortFrom(Addr4(66), 53)}

\* 75-byte datagrams: responses as Server.Handle writes them on a clock up
\* to MaxEpochDiff + 1 off the client's, and one sealed under another key
RdResponses ==
    {Handle(PSK, NewServer(0), peer, PutRequest(PSK, RespNonce, BootEpoch + o),
            0, BootEpoch + o, RespNonce).resp :
        peer \in RdPeers, o \in TsOffsets}
    \cup {Packet(RespNonce, Seal(OtherKey, RespNonce,
                                 <<ToUint64(BootEpoch), MessageTypeResponse,
                                   As16(Addr4(5)), PutUint16(443)>>))}

RdInit ==
    /\ ClockInit
    /\ noncePool = NewServer(0)
    /\ ObsInit
    /\ parity = 0
    /\ poolOp = NoPoolOp
    /\ TsIdle /\ SrvIdle /\ ClIdle
    /\ \E resp \in RdResponses :
          rt = [NoRt EXCEPT !.pc = "sent", !.resp = resp, !.parsed = << >>]

RdAdvance(d) == Tick(d, MaxTime)

\* the receive activity reads the datagram from src: lines 147-166
RdDeliver(src) ==
    /\ Len(rt.parsed) < MaxDeliveries
    /\ LET rd == [err |-> Nil, flags |-> 0, resp |-> rt.resp, src |-> src]
           r == ClientRecv(PSK, rd, nowEpoch)
       IN  rt' = [rt EXCEPT !.pc = "delivered",
                            !.parsed = Append(@, [src |-> src, epoch |-> nowEpoch,
                                                  at |-> now, emit |-> r.emit,
                                                  result |-> r.result])]
    /\ parity' = 1 - parity
    /\ UNCHANGED <<now, wallOff, noncePool, last, accepted, replays, poolOp,
                   tsCase, srv, io, cli>>

RdNext ==
    \/ \E d \in Steps : RdAdvance(d)
    \/ \E src \in RdSources : RdDeliver(src)

SpecRedeliver == RdInit /\ [][RdNext]_vars

\* a response as the server writes it
ValidResponse(resp) ==
    /\ resp.len = ResponsePacketSize
    /\ Opens(resp)
    /\ resp.ct.pt[2] = MessageTypeResponse

\* the address and port a response carries
Carried(resp) ==
    AddrPortFrom(Unmap(AddrFrom16(resp.ct.pt[3])), Uint16(resp.ct.pt[4]))

\* C22: the outcome of the receive activity for a datagram depends only on
\* its bytes and the clock, the source apart from being reported in an
\* error: every delivery of a valid response while its timestamp is within
\* MaxEpochDiff of the clock yields a success with the address the response
\* carries, whichever delivery it is and whatever source it comes from, and
\* two deliveries at the same clock reading yield the same address and the
\* same kind of error.
C22_RedeliveredResponseAcceptedAgain ==
    \A i, j \in DOMAIN rt.parsed :
        LET a == rt.parsed[i]
            b == rt.parsed[j]
        IN  /\ a.emit
            /\ a.epoch = b.epoch
                => /\ a.result.ClientAddrPort = b.result.ClientAddrPort
                   /\ a.result.Err.Err = b.result.Err.Err
                   /\ a.result.Err.Message = b.result.Err.Message
            /\ ValidResponse(rt.resp) /\ Fresh(rt.resp.ct.pt[1], a.epoch)
                => /\ IsOk(a.result)
                   /\ a.result = OkResult(Carried(rt.resp))
            /\ IsOk(a.result)
                => ValidResponse(rt.resp) /\ Fresh(rt.resp.ct.pt[1], a.epoch)

\* the same response has given two successes, the second at a later time and
\* from a source that is not the configured server
C22_Witness ==
    /\ Len(rt.parsed) = 2
    /\ IsOk(rt.parsed[1].result)
    /\ rt.parsed[2].result = rt.parsed[1].result
    /\ rt.parsed[1].src = ServerAddrPort
    /\ rt.parsed[2].src # ServerAddrPort
    /\ rt.parsed[2].at > rt.parsed[1].at

\* ================================================ Run called a second time
\* Two calls of Run on one Client, the later one made once the context of
\* the earlier one is cancelled.  Both calls use the one socket of the
\* Client, and with it its one read deadline; each call has its own context,
\* its own resultCh, its own two activities and its own callback.  No
\* goroutine is scheduled at a set time, so a timer may fire, and a step may
\* be taken, at any moment after it has become possible.  A read that finds
\* the deadline in the past returns os.ErrDeadlineExceeded; a reader woken by
\* a deadline that was reset before it ran goes on waiting.
Calls == {1, 2}

\* one call of Run before it is made
NoRunCall ==
    [caller |-> "none", interval |-> 0, done |-> FALSE, closed |-> FALSE,
     snd |-> "none", sndOut |-> NoResult,
     rcv |-> "none", rcvOut |-> NoResult, cb |-> "none"]

NoRerun == [rdl |-> "none", events |-> 0, call |-> [k \in Calls |-> NoRunCall]]

ReInit ==
    /\ ClockInit
    /\ noncePool = NewServer(0)
    /\ ObsInit
    /\ parity = 0
    /\ poolOp = NoPoolOp
    /\ TsIdle /\ RtIdle /\ SrvIdle
    /\ cli = NoRerun

reSide == <<now, wallOff, noncePool, last, accepted, replays, parity, poolOp,
            tsCase, rt, srv, io>>

\* Run is called: the first call, or the second once the context of the
\* first is cancelled
ReRun(k, interval, err) ==
    /\ cli.call[k].caller = "none"
    /\ k = 2 => cli.call[1].done
    /\ LET c == [cli.call[k] EXCEPT !.caller = "Run"]
           r == Run(c @@ [rdl |-> cli.rdl], interval, err)
       IN  cli' = [cli EXCEPT !.rdl = r.rdl,
                              !.call[k] = [f \in DOMAIN c |-> r[f]]]
    /\ UNCHANGED reSide

\* the caller cancels the context of call k
ReCancel(k) ==
    /\ cli.call[k].snd # "none"
    /\ ~cli.call[k].done
    /\ cli' = [cli EXCEPT !.call[k].done = TRUE]
    /\ UNCHANGED reSide

\* send activity, lines 129-133
ReSend(k, werr) ==
    /\ cli.call[k].snd = "loop"
    /\ werr # Nil => cli.events < MaxEvents
    /\ LET r == ClientSend(ServerAddrPort, werr)
       IN  cli' = [cli EXCEPT
                     !.events = IF werr # Nil THEN @ + 1 ELSE @,
                     !.call[k].snd = IF r.emit THEN "emit" ELSE "wait",
                     !.call[k].sndOut = r.result]
    /\ UNCHANGED reSide

\* send activity, lines 135-137
ReSendWaitDone(k) ==
    /\ cli.call[k].snd = "wait"
    /\ cli.call[k].done
    /\ cli' = [cli EXCEPT !.call[k].snd = "done"]
    /\ UNCHANGED reSide

\* send activity, line 138
ReSendWaitTimer(k) ==
    /\ cli.call[k].snd = "wait"
    /\ cli' = [cli EXCEPT !.call[k].snd = "loop"]
    /\ UNCHANGED reSide

\* receive activity, lines 147-166: the read of call k returns rd
ReRecvRead(k, rd) ==
    /\ cli.call[k].rcv = "read"
    /\ IF cli.rdl = "past" THEN rd = DeadlineRead
       ELSE rd # DeadlineRead /\ cli.events < MaxEvents
    /\ LET r == ClientRecv(PSK, rd, nowEpoch)
       IN  cli' = [cli EXCEPT
                     !.events = IF rd # DeadlineRead THEN @ + 1 ELSE @,
                     !.call[k].rcv = IF r.ret THEN "done"
                                     ELSE IF r.emit THEN "emit" ELSE "read",
                     !.call[k].rcvOut = r.result]
    /\ UNCHANGED reSide

\* receive activity, lines 168-173
ReRecvSelect(k) ==
    /\ cli.call[k].rcv = "select"
    /\ cli' = [cli EXCEPT !.call[k].rcv = IF cli.call[k].done THEN "done" ELSE "read"]
    /\ UNCHANGED reSide

\* the caller of call k receives a Result from its resultCh
ReRunRecv(k, who) ==
    /\ Pending(cli.call[k], who)
    /\ cli' = IF who = "snd"
              THEN [cli EXCEPT !.call[k].snd = "wait"]
              ELSE [cli EXCEPT !.call[k].rcv =
                                  IF IsOk(cli.call[k].rcvOut) THEN "select" ELSE "read"]
    /\ UNCHANGED reSide

\* the callback of call k, line 178
ReCbSetReadDeadline(k) ==
    /\ cli.call[k].cb = "armed"
    /\ cli.call[k].done
    /\ cli' = [cli EXCEPT !.call[k].cb = "wait", !.rdl = "past"]
    /\ UNCHANGED reSide

\* the callback of call k, line 179
ReCbWait(k) ==
    /\ cli.call[k].cb = "wait"
    /\ Wait(cli.call[k])
    /\ cli' = [cli EXCEPT !.call[k].cb = "close"]
    /\ UNCHANGED reSide

\* the callback of call k, line 180
ReCbClose(k) ==
    /\ cli.call[k].cb = "close"
    /\ cli' = [cli EXCEPT !.call[k].cb = "done", !.call[k].closed = TRUE]
    /\ UNCHANGED reSide

ReNext ==
    \E k \in Calls :
        \/ \E i \in RunIntervals, err \in {Nil, ErrSetReadDeadline} : ReRun(k, i, err)
        \/ ReCancel(k)
        \/ \E werr \in {Nil, ErrWrite} : ReSend(k, werr)
        \/ ReSendWaitDone(k)
        \/ ReSendWaitTimer(k)
        \/ ReRecvRead(k, DeadlineRead)
        \/ \E rd \in ClReads(nowEpoch) : ReRecvRead(k, rd)
        \/ ReRecvSelect(k)
        \/ \E who \in {"snd", "rcv"} : ReRunRecv(k, who)
        \/ ReCbSetReadDeadline(k)
        \/ ReCbWait(k)
        \/ ReCbClose(k)

SpecRerun == ReInit /\ [][ReNext]_vars

\* every goroutine of both calls that can take a step takes one, and a
\* caller goes on receiving from its resultCh
SpecRerunFair ==
    /\ SpecRerun
    /\ \A k \in Calls :
          /\ WF_vars(ReSend(k, Nil) \/ ReSendWaitDone(k))
          /\ WF_vars(ReRecvRead(k, DeadlineRead) \/ ReRecvSelect(k))
          /\ WF_vars(ReCbSetReadDeadline(k) \/ ReCbWait(k) \/ ReCbClose(k))
          /\ WF_vars(\E who \in {"snd", "rcv"} : ReRunRecv(k, who))

\* C23 (the later call): the receive activity of the second call returns
\* only once the context of the second call is cancelled.
C23_LaterReceiveNotTerminatedEarly ==
    cli.call[2].rcv = "done" => cli.call[2].done

\* C23 (the earlier call): once the callback of the first call has forced
\* the read deadline, the receive activity of the first call returns.
C23_EarlierReceiveTerminates ==
    (cli.call[1].cb \in {"wait", "close", "done"}) ~> (cli.call[1].rcv = "done")

====
